---- MODULE Spec2Model ----
(***************************************************************************)
(* Model of the schemaforge rule reconciler (js/dbt-generation.js,         *)
(* processRuleChanges) and of the chat flow that stores its result         *)
(* (js/core/chat-manager.js, js/core/event-handlers.js).                   *)
(*                                                                         *)
(* JavaScript objects live on a heap: a sequence of objects, an object's   *)
(* address being its index.  An object is a function from the names of     *)
(* the fields it has to their values; an absent field is absent from the   *)
(* DOMAIN.  The dbtRules field of a heap object is a sequence of           *)
(* addresses, so that pushing a patch entry into the updated rule list     *)
(* shares the entry with the patch exactly as the code does.               *)
(*                                                                         *)
(* A value that may be null is an option: Null or Some(v).                 *)
(* A table name is a sequence of string pieces ("orders" ++ "_additional") *)
(* so that String.includes and suffix appending are computed on it.        *)
(*                                                                         *)
(* The stream loops (generateSchema in js/llm-service.js, generateDbtRules *)
(* and handleDbtRuleChat in js/dbt-generation.js, streamChatResponse in    *)
(* js/llm-service.js) are followed chunk by chunk in SpecStream.  A        *)
(* streamed text is the sequence of its pieces; the source yields longer   *)
(* and longer prefixes of it, and the decoders read the pieces.            *)
(*                                                                         *)
(* The page loads one of two entry points.  js/main.js keeps the RuleSet   *)
(* in one module variable that the generation and the chat handler both    *)
(* assign; under js/main-refactored.js the chat handler of                 *)
(* js/core/chat-manager.js assigns window.currentDbtRulesData only.  Spec  *)
(* follows both, SpecStream the handlers of js/main-refactored.js.         *)
(***************************************************************************)
EXTENDS Integers, Sequences, FiniteSets, TLC

\* ---------------------------------------------------------------- bounds
MaxRules == 2
MaxPatch == 2

\* ---------------------------------------------------------------- values
Null == <<>>
Some(v) == <<v>>
IsNull(o) == o = <<>>
Val(o) == o[1]

NEW_SUFFIX == "_new"
ADDITIONAL_SUFFIX == "_additional"

\* free text (a summary) is the sequence of its paragraphs, so that
\* Array.join("\n\n") is computed on it; "" has no paragraph
EMPTY_STRING == <<>>

\* String.prototype.includes on a table name
Includes(name, piece) == \E i \in DOMAIN name : name[i] = piece

\* variant: the other suffix of the convention is appended
WithNewSuffix(name) == Append(name, NEW_SUFFIX)

\* template literal `${name}_additional`
WithAdditional(name) == Append(name, ADDITIONAL_SUFFIX)

Has(obj, k) == k \in DOMAIN obj

\* obj[k] = v
SetField(obj, k, v) == [f \in (DOMAIN obj) \cup {k} |-> IF f = k THEN v ELSE obj[f]]

\* delete obj[k]
DeleteField(obj, k) == [f \in (DOMAIN obj) \ {k} |-> obj[f]]

\* variant: the existing rule is replaced by the patch entry
ObjectAssignReplace(target, source) == source

\* Object.assign(target, source): own fields of source overwrite target's
ObjectAssign(target, source) ==
  [f \in (DOMAIN target) \cup (DOMAIN source) |->
     IF f \in DOMAIN source THEN source[f] ELSE target[f]]

\* ------------------------------------------------------------------ heap
RECURSIVE AllocRules(_, _)
\* allocate one heap object per rule value; result: heap and the addresses
AllocRules(heap, rules) ==
  IF rules = <<>> THEN [heap |-> heap, addrs |-> <<>>]
  ELSE LET rest == AllocRules(Append(heap, Head(rules)), Tail(rules))
       IN [heap |-> rest.heap, addrs |-> <<Len(heap) + 1>> \o rest.addrs]

\* JSON.parse: build a fresh object graph for a RuleSet / patch value
JsonParse(heap, value) ==
  IF Has(value, "dbtRules")
  THEN LET r == AllocRules(heap, value["dbtRules"])
           top == SetField(value, "dbtRules", r.addrs)
       IN [heap |-> Append(r.heap, top), addr |-> Len(r.heap) + 1]
  ELSE [heap |-> Append(heap, value), addr |-> Len(heap) + 1]

\* JSON.stringify: the value reachable from a top-level object
JsonStringify(heap, addr) ==
  LET top == heap[addr]
  IN IF Has(top, "dbtRules")
     THEN SetField(top, "dbtRules",
                   [i \in DOMAIN top["dbtRules"] |-> heap[top["dbtRules"][i]]])
     ELSE top

\* variant: no copy is made, the caller's object is updated in place
DeepCopyShared(heap, addr) == [heap |-> heap, addr |-> addr]

\* JSON.parse(JSON.stringify(x)): deep copy into fresh objects
DeepCopy(heap, addr) == JsonParse(heap, JsonStringify(heap, addr))

\* variant: the predicate reads a field no rule has, nothing is found
FindIndexNever(heap, addrs, name) == 0

\* Array.prototype.findIndex(rule => rule.tableName === name); 0 for -1
FindIndex(heap, addrs, name) ==
  LET hits == {i \in DOMAIN addrs : heap[addrs[i]]["tableName"] = name}
  IN IF hits = {} THEN 0 ELSE CHOOSE i \in hits : \A j \in hits : i <= j

\* ------------------------------------------------- processRuleChanges
\* variant: only a null RuleSet is refused
LacksRuleListNullOnly(currentRules) == IsNull(currentRules)

\* if (!currentRules?.dbtRules): null, or an object without a rule list
LacksRuleList(currentRules) ==
  IsNull(currentRules) \/ ~Has(Val(currentRules), "dbtRules")

\* newRule.isNewRule === true || existingRuleIndex === -1
IsNewRule(newRule, existingRuleIndex) ==
  (Has(newRule, "isNewRule") /\ newRule["isNewRule"] = TRUE) \/ existingRuleIndex = 0

\* the suffix is appended on a flagged-new collision unless one is there
NeedsSuffix(newRule, existingRuleIndex) ==
  /\ IsNewRule(newRule, existingRuleIndex)
  /\ existingRuleIndex > 0
  /\ ~Includes(newRule["tableName"], NEW_SUFFIX)
  /\ ~Includes(newRule["tableName"], ADDITIONAL_SUFFIX)

LogEntry(msg, table) == [msg |-> msg, table |-> table]

EmptyChangeLog == [added |-> <<>>, modified |-> <<>>, errors |-> <<>>,
                   lastModifiedTable |-> <<>>]

\* variant: only the first table touched is recorded
TouchTableOnce(changeLog, tableName) ==
  IF changeLog.lastModifiedTable = <<>>
  THEN [changeLog EXCEPT !.lastModifiedTable = tableName]
  ELSE changeLog

\* changeLog.lastModifiedTable = newRule.tableName
TouchTable(changeLog, tableName) ==
  [changeLog EXCEPT !.lastModifiedTable = tableName]

\* variant: the new rule is put in front of the list
PushRuleFront(heap, updAddr, ruleAddr) ==
  [heap EXCEPT ![updAddr] =
     SetField(@, "dbtRules", <<ruleAddr>> \o @["dbtRules"])]

\* updatedRules.dbtRules.push(newRule): the rule list shares the object
PushRule(heap, updAddr, ruleAddr) ==
  [heap EXCEPT ![updAddr] =
     SetField(@, "dbtRules", Append(@["dbtRules"], ruleAddr))]

\* one iteration of  for (const newRule of changes.dbtRules)
\* st = [heap, changeLog]; updAddr = updatedRules; ruleAddr = newRule
ProcessEntry(st, updAddr, ruleAddr) ==
  LET heap == st.heap
      newRule == heap[ruleAddr]
      rules == heap[updAddr]["dbtRules"]
      existingRuleIndex == FindIndex(heap, rules, newRule["tableName"])
      isNewRule == IsNewRule(newRule, existingRuleIndex)
  IN IF existingRuleIndex > 0 /\ ~isNewRule
     THEN [heap |-> [heap EXCEPT ![rules[existingRuleIndex]] =
                                    ObjectAssign(@, newRule)],
           changeLog |-> TouchTable(
              [st.changeLog EXCEPT !.modified =
                 Append(@, LogEntry("Modified rule for table", newRule["tableName"]))],
              newRule["tableName"])]
     ELSE LET renamed == IF NeedsSuffix(newRule, existingRuleIndex)
                         THEN SetField(newRule, "tableName",
                                       WithAdditional(newRule["tableName"]))
                         ELSE newRule
              stored == DeleteField(renamed, "isNewRule")
          IN [heap |-> PushRule([heap EXCEPT ![ruleAddr] = stored],
                                updAddr, ruleAddr),
              changeLog |-> TouchTable(
                 [st.changeLog EXCEPT !.added =
                    Append(@, LogEntry("Added new rule for table", stored["tableName"]))],
                 stored["tableName"])]

RECURSIVE ProcessEntries(_, _, _)
ProcessEntries(st, updAddr, ruleAddrs) ==
  IF ruleAddrs = <<>> THEN st
  ELSE ProcessEntries(ProcessEntry(st, updAddr, Head(ruleAddrs)),
                      updAddr, Tail(ruleAddrs))

\* if (changes.globalRecommendations) ...: an array, even empty, is truthy
ApplyGlobalRecommendations(st, updAddr, changes) ==
  IF Has(changes, "globalRecommendations")
  THEN [heap |-> [st.heap EXCEPT ![updAddr] =
                    SetField(@, "globalRecommendations",
                             changes["globalRecommendations"])],
        changeLog |-> [st.changeLog EXCEPT !.modified =
                         Append(@, LogEntry("Updated global recommendations", <<>>))]]
  ELSE st

\* if (changes.summary) ...: the empty string is falsy
ApplySummary(st, updAddr, changes) ==
  IF Has(changes, "summary") /\ changes["summary"] # EMPTY_STRING
  THEN [heap |-> [st.heap EXCEPT ![updAddr] =
                    SetField(@, "summary", changes["summary"])],
        changeLog |-> [st.changeLog EXCEPT !.modified =
                         Append(@, LogEntry("Updated summary", <<>>))]]
  ELSE st

GENERATE_FIRST == "Error: Generate DBT rules first."
UPDATED_HEADER == "### DBT Rules Updated"
THROWN_ERROR == "Error: ${error.message}"

\* a response without the two hidden markers
ErrorResponse(text) ==
  [text |-> text, added |-> <<>>, modified |-> <<>>, errors |-> <<>>,
   UPDATED_DBT_RULES |-> Null, LAST_MODIFIED_TABLE |-> Null]

\* the markdown change log followed by the two hidden markers
UpdatedResponse(changeLog, updatedValue) ==
  [text |-> UPDATED_HEADER,
   added |-> changeLog.added, modified |-> changeLog.modified,
   errors |-> changeLog.errors,
   UPDATED_DBT_RULES |-> Some(updatedValue),
   LAST_MODIFIED_TABLE |-> Some(changeLog.lastModifiedTable)]

\* processRuleChanges(currentRules, changes).  Besides the returned
\* {response, updatedRules} the result carries the two argument objects as
\* they are after the call (currentRules, changes), since the call may
\* write to objects the caller still holds.
ProcessRuleChanges(currentRules, changes) ==
  IF LacksRuleList(currentRules)
  THEN [response |-> ErrorResponse(GENERATE_FIRST), updatedRules |-> Null,
        currentRules |-> currentRules, changes |-> changes]
  ELSE
    LET cur == JsonParse(<<>>, Val(currentRules))
        pat == JsonParse(cur.heap, changes)
        upd == DeepCopy(pat.heap, cur.addr)
        st0 == [heap |-> upd.heap, changeLog |-> EmptyChangeLog]
        \* updatedRules.dbtRules.findIndex on a missing list throws
        throws == /\ Has(changes, "dbtRules")
                  /\ changes["dbtRules"] # <<>>
                  /\ ~Has(upd.heap[upd.addr], "dbtRules")
        st1 == IF Has(changes, "dbtRules")
               THEN ProcessEntries(st0, upd.addr, pat.heap[pat.addr]["dbtRules"])
               ELSE st0
        st2 == ApplyGlobalRecommendations(st1, upd.addr, changes)
        st3 == ApplySummary(st2, upd.addr, changes)
        updatedValue == JsonStringify(st3.heap, upd.addr)
    IN IF throws
       THEN [response |-> ErrorResponse(THROWN_ERROR), updatedRules |-> Null,
             currentRules |-> currentRules, changes |-> changes]
       ELSE [response |-> UpdatedResponse(st3.changeLog, updatedValue),
             updatedRules |-> Some(updatedValue),
             currentRules |-> Some(JsonStringify(st3.heap, cur.addr)),
             changes |-> JsonStringify(st3.heap, pat.addr)]

\* ------------------------------------------------------- input domains
SeqsUpTo(S, n) == UNION {[1..k -> S] : k \in 0..n}

\* an object with the fields whose option is not Null
ObjectOf(opts) == [k \in {f \in DOMAIN opts : ~IsNull(opts[f])} |-> Val(opts[k])]

TableNames == {<<"orders">>, <<"orders", ADDITIONAL_SUFFIX>>, <<"orders", NEW_SUFFIX>>}

\* rules as a finalized generation delivers them
CurrentRuleValues ==
  {[tableName |-> n, materialization |-> "table", modelSql |-> "SELECT 1"] :
     n \in TableNames}

\* patch entries: a name, optionally a new materialization, optionally the flag
PatchRuleValues ==
  {ObjectOf([tableName |-> Some(n), materialization |-> m, isNewRule |-> f]) :
     n \in TableNames, m \in {Null, Some("view")},
     f \in {Null, Some(TRUE), Some(FALSE)}}

CurrentValues ==
  {Null, Some([globalRecommendations |-> <<"g1">>])} \cup
  {Some([dbtRules |-> rs, globalRecommendations |-> <<"g1">>, summary |-> <<"s1">>]) :
     rs \in SeqsUpTo(CurrentRuleValues, MaxRules)}

\* top-level fields of a patch: absent, empty, or a new value
TopLevelOptions ==
  [globalRecommendations : {Null, Some(<<>>), Some(<<"g2">>)},
   summary : {Null, Some(EMPTY_STRING), Some(<<"s2">>)}]

\* patches: top-level fields vary on patches of at most one entry
PatchValues ==
  {ObjectOf([dbtRules |-> rs, globalRecommendations |-> t.globalRecommendations,
             summary |-> t.summary]) :
     rs \in {Null} \cup {Some(e) : e \in SeqsUpTo(PatchRuleValues, 1)},
     t \in TopLevelOptions} \cup
  {[dbtRules |-> e] : e \in SeqsUpTo(PatchRuleValues, MaxPatch)}

\* ------------------------------------------------------------- state
VARIABLES
  hPhase,      \* "args", "called", "again" or "replayed"
  hCurrent0,   \* the RuleSet value D handed to the first call
  hChanges0,   \* the patch value P handed to the first call
  hCurrent,    \* the object D as it is now
  hChanges,    \* the object P as it is now
  hFirst,      \* Some(result of the first call)
  hSecond,     \* Some(result of the second call)
  schemaData,                \* event-handlers.js: let schemaData
  dbtRulesData,              \* event-handlers.js: let dbtRulesData
  windowCurrentDbtRulesData, \* window.currentDbtRulesData
  renderedDbtRules,          \* the RuleSet last handed to renderResults
  loading,                   \* per action: spinner shown, button disabled
  chatContext,               \* context.dbtRules of the chat request in flight
  chatRoute,                 \* "none", "dbt" (handleDbtRuleChat) or "plain"
  chatFullContent,           \* the completed stream text of the last chat
  chatReturn,                \* what handleDbtRuleChat last returned
  status,                    \* type and text of the last updateStatus call
  request,           \* the handler whose request is followed chunk by chunk
  chatDispatch,      \* which body of streamChatResponse the page loaded
  userMessage,       \* Some(the chat message), Null outside a chat request
  pc,                \* the function whose stream loop runs, "ready" or "done"
  streamText,        \* the text the model writes on the open stream
  streamFullContent, \* let fullContent of the running stream loop
  isDbtRuleResponse, \* handleDbtRuleChat: let isDbtRuleResponse
  onUpdateCalls,     \* the values passed to onUpdate so far, in order
  settled,           \* how the promise of each called function settled
  reconcilerCalls,   \* calls of processRuleChanges during the request
  lastChatMessage,   \* role and text of the last renderChatMessage call
  prior,             \* the stored Schema and RuleSet when the request began
  entryPoint,          \* the entry point the page loaded: main.js or main-refactored.js
  generateDbtBtnShown, \* #generate-dbt-btn is without the class d-none
  chatHistory,         \* llm-service.js: let chatHistory
  observerErrors       \* exceptions thrown by onUpdate callbacks so far

hvars == <<hPhase, hCurrent0, hChanges0, hCurrent, hChanges, hFirst, hSecond>>
avars == <<schemaData, dbtRulesData, windowCurrentDbtRulesData, renderedDbtRules,
           loading, chatContext, chatRoute, chatFullContent, chatReturn, status>>
svars == <<request, chatDispatch, userMessage, pc, streamText, streamFullContent,
           isDbtRuleResponse, onUpdateCalls, settled, reconcilerCalls,
           lastChatMessage, prior>>
xvars == <<entryPoint, generateDbtBtnShown, chatHistory, observerErrors>>
vars == <<hvars, avars, svars, xvars>>

NotLoading == [a \in {"upload", "generate-dbt", "chat-floating"} |-> FALSE]

\* the application as main-refactored.js leaves it after loading
AppStart ==
  /\ schemaData = Null
  /\ dbtRulesData = Null
  /\ windowCurrentDbtRulesData = Null
  /\ renderedDbtRules = Null
  /\ loading = NotLoading
  /\ chatContext = Null
  /\ chatRoute = "none"
  /\ chatFullContent = Null
  /\ chatReturn = Null
  /\ status = Null

\* no request is followed chunk by chunk
StreamOff ==
  /\ request = "none"
  /\ chatDispatch = "none"
  /\ userMessage = Null
  /\ pc = "off"
  /\ streamText = <<>>
  /\ streamFullContent = <<>>
  /\ isDbtRuleResponse = FALSE
  /\ onUpdateCalls = <<>>
  /\ settled = <<>>
  /\ reconcilerCalls = 0
  /\ lastChatMessage = Null
  /\ prior = Null
  /\ chatHistory = <<>>
  /\ observerErrors = 0

InitReconcile ==
  /\ hPhase = "args"
  /\ hCurrent0 \in CurrentValues
  /\ hChanges0 \in PatchValues
  /\ hCurrent = hCurrent0
  /\ hChanges = hChanges0
  /\ hFirst = Null
  /\ hSecond = Null
  /\ AppStart
  /\ StreamOff
  /\ entryPoint = "none"
  /\ generateDbtBtnShown = FALSE

\* r = processRuleChanges(D, P)
Reconcile ==
  /\ hPhase = "args"
  /\ LET r == ProcessRuleChanges(hCurrent, hChanges)
     IN /\ hFirst' = Some(r)
        /\ hCurrent' = r.currentRules
        /\ hChanges' = r.changes
  /\ hPhase' = "called"
  /\ UNCHANGED <<hCurrent0, hChanges0, hSecond, avars, svars, xvars>>

\* a second processRuleChanges(D, P) with the same two objects
ReconcileAgain ==
  /\ hPhase = "called"
  /\ LET r == ProcessRuleChanges(hCurrent, hChanges)
     IN /\ hSecond' = Some(r)
        /\ hCurrent' = r.currentRules
        /\ hChanges' = r.changes
  /\ hPhase' = "again"
  /\ UNCHANGED <<hCurrent0, hChanges0, hFirst, avars, svars, xvars>>

\* processRuleChanges(first.updatedRules, P) with the same patch object
Replay ==
  /\ hPhase = "called"
  /\ ~IsNull(Val(hFirst).updatedRules)
  /\ LET r == ProcessRuleChanges(Val(hFirst).updatedRules, hChanges)
     IN /\ hSecond' = Some(r)
        /\ hChanges' = r.changes
  /\ hPhase' = "replayed"
  /\ UNCHANGED <<hCurrent0, hChanges0, hCurrent, hFirst, avars, svars,
                 xvars>>

NextReconcile == Reconcile \/ ReconcileAgain \/ Replay

SpecReconcile == InitReconcile /\ [][NextReconcile]_vars

\* ------------------------------------------------------- the application
MaxGenerated == 1

\* the empty documents rendered when a generation request starts
EmptySchema == [schemas |-> <<>>, relationships |-> <<>>,
                suggestedJoins |-> <<>>, modelingRecommendations |-> <<>>]

\* variant: the placeholder has the rule list only
EmptyDbtRulesBare == [dbtRules |-> <<>>]

EmptyDbtRules == [dbtRules |-> <<>>, globalRecommendations |-> <<>>]

\* complete schema texts a stream may deliver
SchemaValues == {[schemas |-> <<"orders">>]}

\* complete RuleSet texts a stream may deliver
GeneratedRuleValues ==
  {[tableName |-> <<"orders">>, materialization |-> "table", modelSql |-> "SELECT 1"]}

GeneratedValues ==
  {[globalRecommendations |-> <<"g1">>]} \cup
  {[dbtRules |-> rs, summary |-> <<"s1">>] :
     rs \in SeqsUpTo(GeneratedRuleValues, MaxGenerated) \ {<<>>}} \cup
  {[dbtRules |-> rs, globalRecommendations |-> <<"g1">>] :
     rs \in SeqsUpTo(GeneratedRuleValues, MaxGenerated)}

\* partial decodes the rules stream may report
PartialValues == {[dbtRules |-> <<[tableName |-> <<"orders">>]>>]}

\* patches the chat model may send
ChatPatchValues ==
  {ObjectOf([dbtRules |-> rs, globalRecommendations |-> Null, summary |-> s]) :
     rs \in {Some(<<ObjectOf([tableName |-> Some(<<"orders">>),
                              materialization |-> Some("view"),
                              isNewRule |-> f])>>) : f \in {Null, Some(TRUE)}},
     s \in {Null, Some(<<"s2">>)}}

\* the completed text of a chat stream: prose, the sentinel followed by a
\* patch that parses, or the sentinel followed by text that does not parse
ChatContents ==
  {[kind |-> "prose", changes |-> Null], [kind |-> "badjson", changes |-> Null]}
  \cup {[kind |-> "patch", changes |-> Some(c)] : c \in ChatPatchValues}

PLAIN_ANSWER == "${fullContent}"
PARSE_ERROR == "Error: ${error.message}\n\n${fullContent}"

\* if (!schemaData.relationships) schemaData.relationships = []
WithRelationships(schema) ==
  IF Has(schema, "relationships") THEN schema ELSE SetField(schema, "relationships", <<>>)

\* generateDbtRules, after the final JSON.parse: the default summary is
\* globalRecommendations.join("\n\n")
WithDefaultSummary(result) ==
  IF /\ ~Has(result, "summary") \/ result["summary"] = EMPTY_STRING
     /\ Has(result, "globalRecommendations")
  THEN SetField(result, "summary", result["globalRecommendations"])
  ELSE result

\* handleFileUpload up to the await of generateSchema
HandleFileUpload ==
  /\ ~loading["upload"]
  /\ loading' = [loading EXCEPT !["upload"] = TRUE]
  /\ schemaData' = Some(EmptySchema)
  /\ status' = Some([type |-> "info", text |-> "Generating schema..."])
  /\ UNCHANGED <<dbtRulesData, windowCurrentDbtRulesData, renderedDbtRules,
                 chatContext, chatRoute, chatFullContent, chatReturn,
                 hvars, svars, xvars>>

\* generateSchema resolves: the rest of handleFileUpload
SchemaGenerated ==
  /\ loading["upload"]
  /\ \E text \in SchemaValues : schemaData' = Some(WithRelationships(text))
  /\ loading' = [loading EXCEPT !["upload"] = FALSE]
  /\ generateDbtBtnShown' = TRUE
  /\ status' = Some([type |-> "success", text |-> "Schema generation complete! Click 'Generate DBT Rules' to proceed."])
  /\ UNCHANGED <<dbtRulesData, windowCurrentDbtRulesData, renderedDbtRules,
                 chatContext, chatRoute, chatFullContent, chatReturn,
                 hvars, svars, entryPoint, chatHistory, observerErrors>>

\* generateSchema rejects: catch and finally of handleFileUpload
SchemaFailed ==
  /\ loading["upload"]
  /\ loading' = [loading EXCEPT !["upload"] = FALSE]
  /\ status' = Some([type |-> "danger", text |-> "Error: ${error.message}"])
  /\ UNCHANGED <<schemaData, dbtRulesData, windowCurrentDbtRulesData,
                 renderedDbtRules, chatContext, chatRoute, chatFullContent,
                 chatReturn, hvars, svars, xvars>>

\* handleGenerateDbtRules up to the await of generateDbtRules
HandleGenerateDbtRules ==
  /\ generateDbtBtnShown
  /\ ~loading["generate-dbt"]
  /\ ~IsNull(schemaData)
  /\ loading' = [loading EXCEPT !["generate-dbt"] = TRUE]
  /\ dbtRulesData' = Some(EmptyDbtRules)
  /\ renderedDbtRules' = Some(EmptyDbtRules)
  /\ status' = Some([type |-> "info", text |-> "Generating DBT rules..."])
  /\ UNCHANGED <<schemaData, windowCurrentDbtRulesData, chatContext, chatRoute,
                 chatFullContent, chatReturn, hvars, svars, xvars>>

\* handleGenerateDbtRules without a schema: a warning and nothing else
GenerateDbtRulesRefused ==
  /\ generateDbtBtnShown
  /\ ~loading["generate-dbt"]
  /\ IsNull(schemaData)
  /\ status' = Some([type |-> "warning",
                     text |-> "Please upload a file and generate schema first"])
  /\ UNCHANGED <<schemaData, dbtRulesData, windowCurrentDbtRulesData,
                 renderedDbtRules, loading, chatContext, chatRoute,
                 chatFullContent, chatReturn, hvars, svars, xvars>>

\* a chunk of the rules stream decodes: onUpdate renders the partial value
DbtRulesProgress ==
  /\ loading["generate-dbt"]
  /\ \E partialData \in PartialValues : renderedDbtRules' = Some(partialData)
  /\ UNCHANGED <<schemaData, dbtRulesData, windowCurrentDbtRulesData, loading,
                 chatContext, chatRoute, chatFullContent, chatReturn,
                 status, hvars, svars, xvars>>

\* generateDbtRules resolves: the rest of handleGenerateDbtRules
DbtRulesGenerated ==
  /\ loading["generate-dbt"]
  /\ \E text \in GeneratedValues :
       LET result == WithDefaultSummary(text)
       IN /\ dbtRulesData' = Some(result)
          /\ windowCurrentDbtRulesData' =
               IF entryPoint = "main.js" THEN windowCurrentDbtRulesData ELSE Some(result)
  /\ generateDbtBtnShown' = FALSE
  /\ loading' = [loading EXCEPT !["generate-dbt"] = FALSE]
  /\ status' = Some([type |-> "success", text |-> "DBT rules generation complete!"])
  /\ UNCHANGED <<schemaData, renderedDbtRules, chatContext, chatRoute,
                 chatFullContent, chatReturn, hvars, svars, entryPoint, chatHistory,
                 observerErrors>>

\* generateDbtRules rejects: catch and finally of handleGenerateDbtRules
DbtRulesFailed ==
  /\ loading["generate-dbt"]
  /\ loading' = [loading EXCEPT !["generate-dbt"] = FALSE]
  /\ status' = Some([type |-> "danger", text |-> "Error generating DBT rules: ${error.message}"])
  /\ UNCHANGED <<schemaData, dbtRulesData, windowCurrentDbtRulesData,
                 renderedDbtRules, chatContext, chatRoute, chatFullContent,
                 chatReturn, hvars, svars, xvars>>

\* the exploration stops sending chat messages once the stored RuleSet
\* holds more than MaxStored rules (every flagged patch appends one)
MaxStored == 1

RuleCount(stored) ==
  IF IsNull(stored) \/ "dbtRules" \notin DOMAIN Val(stored) THEN 0
  ELSE Len(Val(stored)["dbtRules"])

\* handleChatSubmit up to the await of the stream; streamChatResponse
\* routes on the message containing "rule" or "dbt"
HandleChatSubmit ==
  /\ ~loading["chat-floating"]
  /\ RuleCount(dbtRulesData) <= MaxStored
  /\ \E potentiallyDbtRelated \in BOOLEAN :
       chatRoute' = IF potentiallyDbtRelated THEN "dbt" ELSE "plain"
  /\ chatContext' = dbtRulesData
  /\ loading' = [loading EXCEPT !["chat-floating"] = TRUE]
  /\ UNCHANGED <<schemaData, dbtRulesData, windowCurrentDbtRulesData,
                 renderedDbtRules, chatFullContent, chatReturn, status, hvars, svars,
                 xvars>>

\* handleDbtRuleChat after its stream loop
HandleDbtRuleChat(contextDbtRules, fullContent) ==
  IF fullContent.kind = "patch"
  THEN LET processResult == ProcessRuleChanges(contextDbtRules, Val(fullContent.changes))
       IN [finalResponse |-> processResult.response,
           updatedRules |-> processResult.updatedRules]
  ELSE IF fullContent.kind = "badjson"
  THEN [finalResponse |-> ErrorResponse(PARSE_ERROR), updatedRules |-> Null]
  ELSE [finalResponse |-> ErrorResponse(PLAIN_ANSWER), updatedRules |-> Null]

\* variant: the chat handler of either entry point writes both places
StoreUpdatedRulesBoth(updatedRules) ==
  /\ dbtRulesData' = updatedRules
  /\ windowCurrentDbtRulesData' = updatedRules

\* the chat handler stores the RuleSet of the marker: main.js assigns the
\* module variable dbtRulesData, chat-manager.js window.currentDbtRulesData
StoreUpdatedRules(updatedRules) ==
  IF entryPoint = "main.js"
  THEN dbtRulesData' = updatedRules /\ UNCHANGED windowCurrentDbtRulesData
  ELSE windowCurrentDbtRulesData' = updatedRules /\ UNCHANGED dbtRulesData

\* the chat stream ends: the rest of streamChatResponse, then
\* processFinalChatResponse and the finally of handleChatSubmit
ChatStreamEnds ==
  /\ loading["chat-floating"]
  /\ \E fullContent \in ChatContents :
       LET ret == IF chatRoute = "dbt"
                  THEN HandleDbtRuleChat(chatContext, fullContent)
                  ELSE [finalResponse |-> ErrorResponse(PLAIN_ANSWER),
                        updatedRules |-> Null]
           finalResponse == ret.finalResponse
       IN /\ chatFullContent' = Some(fullContent)
          /\ chatReturn' = Some(ret)
          /\ IF ~IsNull(finalResponse.UPDATED_DBT_RULES)
             THEN /\ StoreUpdatedRules(finalResponse.UPDATED_DBT_RULES)
                  /\ renderedDbtRules' = finalResponse.UPDATED_DBT_RULES
             ELSE UNCHANGED <<dbtRulesData, windowCurrentDbtRulesData, renderedDbtRules>>
  /\ loading' = [loading EXCEPT !["chat-floating"] = FALSE]
  /\ chatContext' = Null
  /\ chatRoute' = "none"
  /\ UNCHANGED <<schemaData, status, hvars, svars, xvars>>

\* variant: the catch of handleChatSubmit without its finally
ChatStreamFailsNoFinally ==
  /\ loading["chat-floating"]
  /\ chatContext' = Null
  /\ chatRoute' = "none"
  /\ status' = Some([type |-> "danger", text |-> "Chat error: ${error.message}"])
  /\ UNCHANGED <<schemaData, dbtRulesData, windowCurrentDbtRulesData,
                 renderedDbtRules, loading, chatFullContent, chatReturn, hvars,
                 svars, xvars>>

\* the chat stream yields an error: catch and finally of handleChatSubmit
ChatStreamFails ==
  /\ loading["chat-floating"]
  /\ loading' = [loading EXCEPT !["chat-floating"] = FALSE]
  /\ chatContext' = Null
  /\ chatRoute' = "none"
  /\ status' = Some([type |-> "danger", text |-> "Chat error: ${error.message}"])
  /\ UNCHANGED <<schemaData, dbtRulesData, windowCurrentDbtRulesData,
                 renderedDbtRules, chatFullContent, chatReturn, hvars, svars,
                 xvars>>

\* the page has loaded one of the two entry points; index.html decides
\* whether #generate-dbt-btn starts hidden
Init ==
  /\ AppStart
  /\ entryPoint \in {"main.js", "main-refactored.js"}
  /\ generateDbtBtnShown \in BOOLEAN
  /\ hPhase = "off"
  /\ hCurrent0 = Null /\ hChanges0 = <<>> /\ hCurrent = Null /\ hChanges = <<>>
  /\ hFirst = Null /\ hSecond = Null
  /\ StreamOff

Next ==
  \/ HandleFileUpload \/ SchemaGenerated \/ SchemaFailed
  \/ HandleGenerateDbtRules \/ GenerateDbtRulesRefused \/ DbtRulesProgress \/ DbtRulesGenerated \/ DbtRulesFailed
  \/ HandleChatSubmit \/ ChatStreamEnds \/ ChatStreamFails

Spec == Init /\ [][Next]_vars

\* ------------------------------------------------------- streamed text
\* A streamed text is the sequence of its pieces.  asyncLLM hands the
\* stream loop the text so far ({content}), a prefix of the text the model
\* ends up writing; an item without content changes nothing.
MaxItems == 2

Blank == [t |-> " "]
Prose == [t |-> "Sure."]
OpenObject == [t |-> "{"]
CloseObject == [t |-> "}"]
CloseList == [t |-> "]"]
\* "name":[
ListKey(name) == [t |-> "\"name\":[", name |-> name]
\* one complete element of the open list
Item(v) == [t |-> "item", item |-> v]
\* "name":value
Field(name, v) == [t |-> "\"name\":value", name |-> name, value |-> v]

Prefix(text, n) == SubSeq(text, 1, n)

\* fullContent = content
Accumulate(buffer, content) == content

\* the contents the source can yield next: the longer prefixes of the text
NextContents(text, soFar) == {Prefix(text, n) : n \in (Len(soFar) + 1)..Len(text)}

\* -------- the decoders: partial-json parse and JSON.parse
\* One piece read.  st.at is "start" (nothing but blanks so far), "object",
\* "list", "closed" (the top-level object is complete), "trailing" (text
\* after the complete object), "malformed" (the text does not open an
\* object) or "stuck" (a piece that cannot continue the object).
DecodeStep(st, piece) ==
  IF st.at = "start"
  THEN IF piece = Blank THEN st
       ELSE IF piece = OpenObject THEN [st EXCEPT !.at = "object"]
       ELSE [st EXCEPT !.at = "malformed"]
  ELSE IF st.at = "object"
  THEN IF piece.t = ListKey("").t
       THEN [at |-> "list", key |-> piece.name,
             value |-> SetField(st.value, piece.name, <<>>)]
       ELSE IF piece.t = Field("", <<>>).t
       THEN [st EXCEPT !.value = SetField(@, piece.name, piece.value)]
       ELSE IF piece = CloseObject THEN [st EXCEPT !.at = "closed"]
       ELSE IF piece = Blank THEN st
       ELSE [st EXCEPT !.at = "stuck"]
  ELSE IF st.at = "list"
  THEN IF piece.t = Item(<<>>).t
       THEN [st EXCEPT !.value = SetField(@, st.key, Append(@[st.key], piece.item))]
       ELSE IF piece = CloseList THEN [st EXCEPT !.at = "object"]
       ELSE IF piece = Blank THEN st
       ELSE [st EXCEPT !.at = "stuck"]
  ELSE IF st.at = "closed"
  THEN IF piece = Blank THEN st ELSE [st EXCEPT !.at = "trailing"]
  ELSE st

RECURSIVE DecodeFrom(_, _)
DecodeFrom(st, text) ==
  IF text = <<>> THEN st ELSE DecodeFrom(DecodeStep(st, Head(text)), Tail(text))

Decode(text) == DecodeFrom([at |-> "start", key |-> "", value |-> <<>>], text)

\* parse(fullContent) of partial-json: Null when it throws (blank text, or
\* text that does not open a JSON value); otherwise what was read so far
PartialParse(text) ==
  IF Decode(text).at \in {"start", "malformed"} THEN Null
  ELSE Some(Decode(text).value)

\* variant: the final parse accepts what the partial decoder accepts
StrictParseLenient(text) ==
  IF Decode(text).at \in {"start", "malformed"} THEN Null
  ELSE Some(Decode(text).value)

\* JSON.parse(fullContent): Null when it throws
StrictParse(text) ==
  IF Decode(text).at = "closed" THEN Some(Decode(text).value) ELSE Null

\* -------- texts of the generation streams
StreamNames == <<"orders", "customers", "items", "users">>
ARROW_SQL == "SELECT 1 -- keep -->"
StreamRule(i) ==
  [tableName |-> <<StreamNames[i]>>, materialization |-> "table", modelSql |-> "SELECT 1"]
ArrowRule ==
  [tableName |-> <<"orders">>, materialization |-> "table", modelSql |-> ARROW_SQL]

RulesList(k) ==
  <<ListKey("dbtRules")>> \o [i \in 1..k |-> Item(StreamRule(i))] \o <<CloseList>>

RuleSetText(k) ==
  <<OpenObject>> \o RulesList(k)
  \o <<Field("globalRecommendations", <<"g1">>), CloseObject>>

ArrowRuleSetText ==
  <<OpenObject, ListKey("dbtRules"), Item(ArrowRule), CloseList,
    Field("globalRecommendations", <<"g1">>), CloseObject>>

SchemaText(k) ==
  <<OpenObject, ListKey("schemas")>> \o [i \in 1..k |-> Item(StreamNames[i])]
  \o <<CloseList, CloseObject>>

\* what the model may write on a rules stream: complete documents, one
\* after a blank, one after prose, one before prose, one cut short, one
\* that names the rule list twice, one without the rule list, and nothing
RuleSetTexts ==
  {RuleSetText(k) : k \in 0..MaxItems} \cup
  {<<Blank>> \o RuleSetText(1),
   <<Prose>> \o RuleSetText(1),
   RuleSetText(1) \o <<Prose>>,
   Prefix(RuleSetText(MaxItems), MaxItems + 1),
   <<OpenObject>> \o RulesList(MaxItems) \o RulesList(1) \o <<CloseObject>>,
   <<OpenObject, Field("globalRecommendations", <<"g1">>), CloseObject>>,
   <<>>}

SchemaTexts ==
  {SchemaText(k) : k \in 1..MaxItems} \cup
  {<<Blank>> \o SchemaText(1), Prefix(SchemaText(1), 3), <<Prose>>}

\* -------- chat messages and chat texts
\* a chat message is the sequence of its words
LowerCaseWords ==
  [w \in {"What", "Add", "Explain", "DBT", "RULES?"} |->
     CASE w = "What" -> "what" [] w = "Add" -> "add" [] w = "Explain" -> "explain"
       [] w = "DBT" -> "dbt" [] w = "RULES?" -> "rules?"]

\* String.prototype.toLowerCase
ToLowerCase(message) ==
  [i \in DOMAIN message |->
     IF message[i] \in DOMAIN LowerCaseWords THEN LowerCaseWords[message[i]]
     ELSE message[i]]

\* the words that contain the searched substring
WordsWith(sub) ==
  CASE sub = "rule" -> {"rule", "rules?"}
    [] sub = "dbt" -> {"dbt"}

\* String.prototype.includes on a message
MessageIncludes(message, sub) == \E i \in DOMAIN message : message[i] \in WordsWith(sub)

\* userMessage.toLowerCase().includes('rule') || ...includes('dbt')
PotentiallyDbtRelated(message) ==
  \/ MessageIncludes(ToLowerCase(message), "rule")
  \/ MessageIncludes(ToLowerCase(message), "dbt")

ChatMessages ==
  {<<"What", "does", "the", "email", "column", "mean?">>,
   <<"Add", "a", "not-null", "rule", "to", "the", "orders", "table">>,
   <<"Explain", "DBT">>,
   <<"any", "RULES?">>}

SENTINEL == [t |-> "DBT_RULE_JSON:"]
WORKING == <<[t |-> "Generating DBT rule modifications..."]>>
\* a complete JSON object text
JsonObject(v) == [t |-> "{...}", json |-> v]
\* a JSON object text cut short
OpenJson == [t |-> "{\"dbtRules\":["]
\* prose with braces in it
BraceProse == [t |-> "(see {notes})"]
\* "<!-- UPDATED_DBT_RULES:" + JSON.stringify(updatedRules) + " -->"
UpdatedMarker(v) == [t |-> "<!-- UPDATED_DBT_RULES:", rules |-> v]
\* "<!-- LAST_MODIFIED_TABLE:" + changeLog.lastModifiedTable + " -->"
TableMarker(n) == [t |-> "<!-- LAST_MODIFIED_TABLE:", table |-> n]
\* the markdown change log of a reconcile
LogText(response) ==
  [t |-> response.text, added |-> response.added,
   modified |-> response.modified, errors |-> response.errors]

IncludesPiece(text, piece) == \E i \in DOMAIN text : text[i] = piece

\* variant: only the end of the text is searched
EndsWithSentinel(text) == text # <<>> /\ text[Len(text)] = SENTINEL

\* fullContent.includes("DBT_RULE_JSON:")
IncludesSentinel(text) == IncludesPiece(text, SENTINEL)

\* patches the chat model may write
MergePatch ==
  [dbtRules |-> <<[tableName |-> <<"orders">>, materialization |-> "view"]>>]
AddPatch ==
  [dbtRules |-> <<[tableName |-> <<"orders">>, materialization |-> "view",
                   isNewRule |-> TRUE]>>]
SummaryPatch == [summary |-> <<"s2">>]
ChatPatches == {MergePatch, AddPatch, SummaryPatch}

\* RuleSets the application can hold when a chat request begins
EchoedRules == [dbtRules |-> <<>>, globalRecommendations |-> <<"g1">>]

\* what the model may write on a chat stream
ChatTexts ==
  {<<Prose>>} \cup
  {<<Prose, SENTINEL, JsonObject(p)>> : p \in ChatPatches} \cup
  {<<SENTINEL, Blank, JsonObject(MergePatch), BraceProse>>,
   <<SENTINEL, JsonObject(MergePatch), Prose>>,
   <<SENTINEL, OpenJson>>,
   <<SENTINEL, OpenJson, BraceProse>>,
   <<Prose, UpdatedMarker(EchoedRules)>>}

\* -------- handleDbtRuleChat after its loop
StartsWithBrace(piece) == piece.t \in {JsonObject(<<>>).t, OpenJson.t}
HasClosingBrace(piece) == piece.t \in {JsonObject(<<>>).t, BraceProse.t}

\* the first piece after position i that is not blank (0: none)
AfterBlanks(text, i) ==
  IF \E k \in (i + 1)..Len(text) : text[k] # Blank
  THEN CHOOSE k \in (i + 1)..Len(text) :
         text[k] # Blank /\ \A j \in (i + 1)..(k - 1) : text[j] = Blank
  ELSE 0

\* the positions where /DBT_RULE_JSON:\s*(\{[\s\S]*\})/ can start
SentinelStarts(text) ==
  {i \in DOMAIN text :
     /\ text[i] = SENTINEL
     /\ AfterBlanks(text, i) # 0
     /\ StartsWithBrace(text[AfterBlanks(text, i)])
     /\ \E j \in AfterBlanks(text, i)..Len(text) : HasClosingBrace(text[j])}

\* variant: the group is lazy and ends at the first closing brace
SentinelCaptureLazy(text) ==
  IF SentinelStarts(text) = {} THEN Null
  ELSE LET i == CHOOSE s \in SentinelStarts(text) : \A o \in SentinelStarts(text) : s <= o
           from == AfterBlanks(text, i)
           to == CHOOSE j \in from..Len(text) :
                   /\ HasClosingBrace(text[j])
                   /\ \A k \in from..Len(text) : HasClosingBrace(text[k]) => j <= k
       IN Some(SubSeq(text, from, to))

\* jsonMatch[1]: from the brace after the first sentinel that matches to
\* the last closing brace of the text (the group is greedy); Null: no match
SentinelCapture(text) ==
  IF SentinelStarts(text) = {} THEN Null
  ELSE LET i == CHOOSE s \in SentinelStarts(text) : \A o \in SentinelStarts(text) : s <= o
           from == AfterBlanks(text, i)
           to == CHOOSE j \in from..Len(text) :
                   /\ HasClosingBrace(text[j])
                   /\ \A k \in from..Len(text) : HasClosingBrace(text[k]) => k <= j
       IN Some(SubSeq(text, from, to))

\* JSON.parse(jsonMatch[1]): Null when it throws
ParseCapture(capture) ==
  IF Len(capture) = 1 /\ capture[1].t = JsonObject(<<>>).t
  THEN Some(capture[1].json) ELSE Null

PARSE_ERROR_PIECE == [t |-> "Error: ${error.message}\n\n"]

\* the response string of processRuleChanges
ResponseText(response) ==
  IF IsNull(response.UPDATED_DBT_RULES) THEN <<[t |-> response.text]>>
  ELSE <<LogText(response),
         UpdatedMarker(Val(response.UPDATED_DBT_RULES)),
         TableMarker(Val(response.LAST_MODIFIED_TABLE))>>

\* handleDbtRuleChat from the end of its loop to its return; reconciled
\* tells whether processRuleChanges was called
HandleDbtRuleChatReturn(contextDbtRules, text, isDbt) ==
  IF ~isDbt \/ IsNull(SentinelCapture(text))
  THEN [finalResponse |-> text, updatedRules |-> Null, reconciled |-> FALSE]
  ELSE IF IsNull(ParseCapture(Val(SentinelCapture(text))))
  THEN [finalResponse |-> <<PARSE_ERROR_PIECE>> \o text, updatedRules |-> Null,
        reconciled |-> FALSE]
  ELSE LET processResult ==
             ProcessRuleChanges(contextDbtRules, Val(ParseCapture(Val(SentinelCapture(text)))))
       IN [finalResponse |-> ResponseText(processResult.response),
           updatedRules |-> processResult.updatedRules, reconciled |-> TRUE]

\* -------- processFinalChatResponse
StringHasArrow(s) == s = ARROW_SQL

\* JSON.stringify(rules) contains " -->"
JsonHasArrow(rules) ==
  /\ Has(rules, "dbtRules")
  /\ \E i \in DOMAIN rules["dbtRules"] :
       \E f \in (DOMAIN rules["dbtRules"][i]) \cap {"modelSql", "materialization"} :
         StringHasArrow(rules["dbtRules"][i][f])

\* the first piece with the given head (0: none)
FirstPiece(text, head) ==
  IF \E i \in DOMAIN text : text[i].t = head
  THEN CHOOSE i \in DOMAIN text :
         text[i].t = head /\ \A j \in DOMAIN text : text[j].t = head => i <= j
  ELSE 0

RemoveAt(text, from, to) == SubSeq(text, 1, from - 1) \o SubSeq(text, to + 1, Len(text))

\* the piece holds " -->" after at least one character of payload
EndsComment(piece) ==
  \/ piece.t = UpdatedMarker(<<>>).t
  \/ piece.t = TableMarker(<<>>).t /\ piece.table # <<>>

\* text.replace(/<!-- HEAD:.+? -->/s, ''): from the first marker to the
\* nearest " -->" that follows at least one character
RemoveMarker(text, head) ==
  LET from == FirstPiece(text, head)
  IN IF from = 0 THEN text
     ELSE IF EndsComment(text[from]) THEN RemoveAt(text, from, from)
     ELSE IF \E k \in (from + 1)..Len(text) : EndsComment(text[k])
     THEN RemoveAt(text, from,
                   CHOOSE k \in (from + 1)..Len(text) :
                     /\ EndsComment(text[k])
                     /\ \A j \in (from + 1)..Len(text) : EndsComment(text[j]) => k <= j)
     ELSE text

\* processFinalChatResponse: the RuleSet to store (Null: none) and the
\* message rendered.  The lazy group of /<!-- UPDATED_DBT_RULES:(.+?) -->/s
\* ends at the first " -->", inside the JSON when a rule text holds one,
\* and JSON.parse then throws.
ProcessFinalChatResponse(finalResponse) ==
  LET at == FirstPiece(finalResponse, UpdatedMarker(<<>>).t)
  IN IF at = 0 \/ JsonHasArrow(finalResponse[at].rules)
     THEN [updatedRules |-> Null, message |-> finalResponse]
     ELSE [updatedRules |-> Some(finalResponse[at].rules),
           message |-> RemoveMarker(RemoveMarker(finalResponse, UpdatedMarker(<<>>).t),
                                    TableMarker(<<>>).t)]

\* ------------------------------------- one request, chunk by chunk
\* The stream loops of generateSchema, generateDbtRules, handleDbtRuleChat
\* and streamChatResponse, each under the handler that calls it.  One
\* request is followed from a state the application can be in; requests
\* that overlap are the subject of Spec.

UPSTREAM_ERROR == "${error}"
SYNTAX_ERROR == "${SyntaxError.message}"
\* the message of what an onUpdate callback throws
OBSERVER_ERROR == "${TypeError.message}"

FinalizedSchema == WithRelationships(Val(StrictParse(SchemaText(1))))
FinalizedRuleSets ==
  {WithDefaultSummary(Val(StrictParse(text))) :
     text \in {RuleSetText(1), ArrowRuleSetText,
               <<OpenObject, Field("globalRecommendations", <<"g1">>), CloseObject>>}}

\* what is stored before the request: nothing, a Schema, a Schema and a RuleSet
StoredStates ==
  {[schemaData |-> Null, dbtRulesData |-> Null]} \cup
  {[schemaData |-> Some(FinalizedSchema), dbtRulesData |-> d] :
     d \in {Null} \cup {Some(r) : r \in FinalizedRuleSets}}

\* one entry of chatHistory
HistoryEntry(role, content) == [role |-> role, content |-> content]

\* chatHistory before the request: empty, or one completed call
ChatHistories ==
  {<<>>,
   <<HistoryEntry("user", <<[t |-> "userMessage", words |-> "plain"]>>),
     HistoryEntry("assistant", <<Prose>>)>>}

\* The request is followed under the handlers of main-refactored.js.  The
\* button is shown once a Schema is stored and no RuleSet was generated
\* from it; a later upload shows it again beside the stored RuleSet.
InitStream ==
  /\ request \in {"upload", "generate-dbt", "chat-floating"}
  /\ chatDispatch \in {"heuristic", "always"}
  /\ entryPoint = "main-refactored.js"
  /\ generateDbtBtnShown \in BOOLEAN
  /\ chatHistory \in ChatHistories
  /\ observerErrors = 0
  /\ \E s \in StoredStates :
       /\ schemaData = s.schemaData
       /\ dbtRulesData = s.dbtRulesData
       /\ windowCurrentDbtRulesData = s.dbtRulesData
       /\ renderedDbtRules = s.dbtRulesData
       /\ prior = Some(s)
       /\ (~IsNull(s.schemaData) /\ IsNull(s.dbtRulesData)) => generateDbtBtnShown
  /\ loading = NotLoading
  /\ chatContext = Null /\ chatRoute = "none"
  /\ chatFullContent = Null /\ chatReturn = Null
  /\ status = Null
  /\ userMessage = Null
  /\ pc = "ready"
  /\ streamText = <<>>
  /\ streamFullContent = <<>>
  /\ isDbtRuleResponse = FALSE
  /\ onUpdateCalls = <<>>
  /\ settled = <<>>
  /\ reconcilerCalls = 0
  /\ lastChatMessage = Null
  /\ hPhase = "off"
  /\ hCurrent0 = Null /\ hChanges0 = <<>> /\ hCurrent = Null /\ hChanges = <<>>
  /\ hFirst = Null /\ hSecond = Null

\* the promise of fn rejects / resolves
Rejected(fn, message) == [fn |-> fn, rejected |-> TRUE, message |-> message]
Resolved(fn, value) == [fn |-> fn, rejected |-> FALSE, value |-> value]

\* variant: the cause is left out of the message
WithoutCause(prefix, cause) == prefix

\* the template literal `${prefix}${cause}`
WithCause(prefix, cause) == prefix \o cause

\* variant: what parse throws leaves the loop
ParseErrorEscapesUncaught(text) == IsNull(PartialParse(text))

\* try { parse; onUpdate } catch {}: what parse throws never leaves the loop
ParseErrorEscapes(text) == FALSE

\* ---- handleFileUpload and generateSchema
\* handleFileUpload up to the first item of the schema stream
UploadBegins ==
  /\ request = "upload" /\ pc = "ready"
  /\ ~loading["upload"]
  /\ loading' = [loading EXCEPT !["upload"] = TRUE]
  /\ schemaData' = Some(EmptySchema)
  /\ status' = Some([type |-> "info", text |-> <<"Generating schema...">>])
  /\ streamText' \in SchemaTexts
  /\ pc' = "generateSchema"
  /\ UNCHANGED <<dbtRulesData, windowCurrentDbtRulesData, renderedDbtRules,
                 chatContext, chatRoute, chatFullContent, chatReturn,
                 request, chatDispatch, userMessage, streamFullContent,
                 isDbtRuleResponse, onUpdateCalls, settled, reconcilerCalls,
                 lastChatMessage, prior, hvars, xvars>>

\* generateSchema rejects: catch and finally of handleFileUpload
SchemaRejects(message) ==
  /\ settled' = Append(settled, Rejected("generateSchema", message))
  /\ status' = Some([type |-> "danger", text |-> WithCause(<<"Error: ">>, message)])
  /\ loading' = [loading EXCEPT !["upload"] = FALSE]
  /\ pc' = "done"
  /\ UNCHANGED <<schemaData, dbtRulesData, windowCurrentDbtRulesData,
                 renderedDbtRules, chatContext, chatRoute, chatFullContent,
                 chatReturn, request, chatDispatch, userMessage, streamText,
                 streamFullContent, isDbtRuleResponse, onUpdateCalls,
                 reconcilerCalls, lastChatMessage, prior, hvars,
                 xvars>>

\* the onUpdate callback throws at most MaxThrows times in one request
MaxThrows == 1

\* whether the callback called with this chunk throws
ObserverOutcomes(text, thrownBefore) ==
  IF ~IsNull(PartialParse(text)) /\ thrownBefore < MaxThrows THEN BOOLEAN ELSE {FALSE}

\* variant: what onUpdate throws leaves the loop
ObserverErrorEscapesUncaught(thrown) == thrown

\* try { parse; onUpdate } catch {}: what onUpdate throws never leaves the loop
ObserverErrorEscapes(thrown) == FALSE

\* one {content} item in generateSchema
GenerateSchemaChunk ==
  /\ pc = "generateSchema"
  /\ \E content \in NextContents(streamText, streamFullContent) :
       \E thrown \in ObserverOutcomes(Accumulate(streamFullContent, content), observerErrors) :
         IF ParseErrorEscapes(Accumulate(streamFullContent, content))
         THEN SchemaRejects(WithCause(<<"Schema generation failed: ">>, <<SYNTAX_ERROR>>))
         ELSE IF ObserverErrorEscapes(thrown)
         THEN SchemaRejects(WithCause(<<"Schema generation failed: ">>, <<OBSERVER_ERROR>>))
         ELSE /\ streamFullContent' = Accumulate(streamFullContent, content)
              /\ onUpdateCalls' = IF IsNull(PartialParse(streamFullContent')) THEN onUpdateCalls
                                  ELSE Append(onUpdateCalls, Val(PartialParse(streamFullContent')))
              /\ observerErrors' = observerErrors + (IF thrown THEN 1 ELSE 0)
              /\ UNCHANGED <<schemaData, dbtRulesData, windowCurrentDbtRulesData,
                             renderedDbtRules, loading, chatContext, chatRoute,
                             chatFullContent, chatReturn, status, request,
                             chatDispatch, userMessage, pc, streamText,
                             isDbtRuleResponse, settled, reconcilerCalls,
                             lastChatMessage, prior, hvars,
                             entryPoint, generateDbtBtnShown, chatHistory>>

\* one {error} item in generateSchema
GenerateSchemaError ==
  /\ pc = "generateSchema"
  /\ SchemaRejects(WithCause(<<"Schema generation failed: ", "LLM API error: ">>,
                             <<UPSTREAM_ERROR>>))

\* the schema stream ends: JSON.parse and the rest of handleFileUpload
GenerateSchemaEnds ==
  /\ pc = "generateSchema"
  /\ streamFullContent = streamText
  /\ IF IsNull(StrictParse(streamFullContent))
     THEN SchemaRejects(WithCause(<<"Schema generation failed: ">>, <<SYNTAX_ERROR>>))
     ELSE /\ settled' = Append(settled, Resolved("generateSchema", Val(StrictParse(streamFullContent))))
          /\ schemaData' = Some(WithRelationships(Val(StrictParse(streamFullContent))))
          /\ status' = Some([type |-> "success", text |-> <<"Schema generation complete! Click 'Generate DBT Rules' to proceed.">>])
          /\ loading' = [loading EXCEPT !["upload"] = FALSE]
          /\ generateDbtBtnShown' = TRUE
          /\ pc' = "done"
          /\ UNCHANGED <<dbtRulesData, windowCurrentDbtRulesData,
                         renderedDbtRules, chatContext, chatRoute, chatFullContent,
                         chatReturn, request, chatDispatch, userMessage, streamText,
                         streamFullContent, isDbtRuleResponse, onUpdateCalls,
                         reconcilerCalls, lastChatMessage, prior, hvars,
                         entryPoint, chatHistory, observerErrors>>

\* ---- handleGenerateDbtRules and generateDbtRules
\* handleGenerateDbtRules up to the first item of the rules stream
GenerateBegins ==
  /\ request = "generate-dbt" /\ pc = "ready"
  /\ generateDbtBtnShown
  /\ ~loading["generate-dbt"]
  /\ ~IsNull(schemaData)
  /\ loading' = [loading EXCEPT !["generate-dbt"] = TRUE]
  /\ dbtRulesData' = Some(EmptyDbtRules)
  /\ renderedDbtRules' = Some(EmptyDbtRules)
  /\ status' = Some([type |-> "info", text |-> <<"Generating DBT rules...">>])
  /\ streamText' \in RuleSetTexts
  /\ pc' = "generateDbtRules"
  /\ UNCHANGED <<schemaData, windowCurrentDbtRulesData,
                 chatContext, chatRoute, chatFullContent, chatReturn,
                 request, chatDispatch, userMessage, streamFullContent,
                 isDbtRuleResponse, onUpdateCalls, settled, reconcilerCalls,
                 lastChatMessage, prior, hvars, xvars>>

\* generateDbtRules rejects: catch and finally of handleGenerateDbtRules
DbtRulesRejects(message) ==
  /\ settled' = Append(settled, Rejected("generateDbtRules", message))
  /\ status' = Some([type |-> "danger",
                     text |-> WithCause(<<"Error generating DBT rules: ">>, message)])
  /\ loading' = [loading EXCEPT !["generate-dbt"] = FALSE]
  /\ pc' = "done"
  /\ UNCHANGED <<schemaData, dbtRulesData, windowCurrentDbtRulesData,
                 renderedDbtRules, chatContext, chatRoute, chatFullContent,
                 chatReturn, request, chatDispatch, userMessage, streamText,
                 streamFullContent, isDbtRuleResponse, onUpdateCalls,
                 reconcilerCalls, lastChatMessage, prior, hvars,
                 xvars>>

\* one {content} item in generateDbtRules; onUpdate renders the partial
\* value, and a callback that throws leaves the view as it was
GenerateDbtRulesChunk ==
  /\ pc = "generateDbtRules"
  /\ \E content \in NextContents(streamText, streamFullContent) :
       \E thrown \in ObserverOutcomes(Accumulate(streamFullContent, content), observerErrors) :
         IF ParseErrorEscapes(Accumulate(streamFullContent, content))
         THEN DbtRulesRejects(WithCause(<<"DBT rules generation failed: ">>, <<SYNTAX_ERROR>>))
         ELSE IF ObserverErrorEscapes(thrown)
         THEN DbtRulesRejects(WithCause(<<"DBT rules generation failed: ">>, <<OBSERVER_ERROR>>))
         ELSE /\ streamFullContent' = Accumulate(streamFullContent, content)
              /\ IF IsNull(PartialParse(streamFullContent'))
                 THEN UNCHANGED <<onUpdateCalls, renderedDbtRules>>
                 ELSE /\ onUpdateCalls' = Append(onUpdateCalls, Val(PartialParse(streamFullContent')))
                      /\ renderedDbtRules' = IF thrown THEN renderedDbtRules
                                             ELSE PartialParse(streamFullContent')
              /\ observerErrors' = observerErrors + (IF thrown THEN 1 ELSE 0)
              /\ UNCHANGED <<schemaData, dbtRulesData, windowCurrentDbtRulesData,
                             loading, chatContext, chatRoute,
                             chatFullContent, chatReturn, status, request,
                             chatDispatch, userMessage, pc, streamText,
                             isDbtRuleResponse, settled, reconcilerCalls,
                             lastChatMessage, prior, hvars,
                             entryPoint, generateDbtBtnShown, chatHistory>>

\* one {error} item in generateDbtRules
GenerateDbtRulesError ==
  /\ pc = "generateDbtRules"
  /\ DbtRulesRejects(WithCause(<<"DBT rules generation failed: ", "LLM API error: ">>,
                               <<UPSTREAM_ERROR>>))

\* the rules stream ends: JSON.parse, the default summary and the rest of
\* handleGenerateDbtRules
GenerateDbtRulesEnds ==
  /\ pc = "generateDbtRules"
  /\ streamFullContent = streamText
  /\ IF IsNull(StrictParse(streamFullContent))
     THEN DbtRulesRejects(WithCause(<<"DBT rules generation failed: ">>, <<SYNTAX_ERROR>>))
     ELSE LET result == WithDefaultSummary(Val(StrictParse(streamFullContent)))
          IN /\ settled' = Append(settled, Resolved("generateDbtRules", result))
             /\ dbtRulesData' = Some(result)
             /\ windowCurrentDbtRulesData' =
                  IF entryPoint = "main.js" THEN windowCurrentDbtRulesData ELSE Some(result)
             /\ status' = Some([type |-> "success", text |-> <<"DBT rules generation complete!">>])
             /\ loading' = [loading EXCEPT !["generate-dbt"] = FALSE]
             /\ generateDbtBtnShown' = FALSE
             /\ pc' = "done"
             /\ UNCHANGED <<schemaData, renderedDbtRules, chatContext, chatRoute,
                            chatFullContent, chatReturn, request, chatDispatch,
                            userMessage, streamText, streamFullContent,
                            isDbtRuleResponse, onUpdateCalls, reconcilerCalls,
                            lastChatMessage, prior, hvars,
                            entryPoint, chatHistory, observerErrors>>

\* ---- handleChatSubmit, streamChatResponse and handleDbtRuleChat
UserText(message) == <<[t |-> "userMessage", words |-> message]>>

\* the function whose loop takes the message first: the body of
\* streamChatResponse at line 124 routes on the message, the body at line
\* 418 hands every message to handleDbtRuleChat
FirstLoop(dispatch, message) ==
  IF dispatch = "always" \/ PotentiallyDbtRelated(message)
  THEN "handleDbtRuleChat" ELSE "streamChatResponse"

\* handleChatSubmit up to the first item of the first chat stream
ChatBegins ==
  /\ request = "chat-floating" /\ pc = "ready"
  /\ ~loading["chat-floating"]
  /\ \E message \in ChatMessages :
       /\ userMessage' = Some(message)
       /\ lastChatMessage' = Some([role |-> "user", message |-> UserText(message)])
       /\ chatHistory' = Append(chatHistory, HistoryEntry("user", UserText(message)))
       /\ pc' = FirstLoop(chatDispatch, message)
  /\ chatContext' = dbtRulesData
  /\ loading' = [loading EXCEPT !["chat-floating"] = TRUE]
  /\ streamText' \in ChatTexts
  /\ UNCHANGED <<schemaData, dbtRulesData, windowCurrentDbtRulesData,
                 renderedDbtRules, chatRoute, chatFullContent, chatReturn,
                 status, request, chatDispatch, streamFullContent,
                 isDbtRuleResponse, onUpdateCalls, settled, reconcilerCalls,
                 prior, hvars, entryPoint, generateDbtBtnShown, observerErrors>>

\* streamChatResponse rejects: catch and finally of handleChatSubmit
ChatRejects(fn, message) ==
  /\ settled' = Append(settled, Rejected(fn, message))
  /\ status' = Some([type |-> "danger", text |-> WithCause(<<"Chat error: ">>, message)])
  /\ lastChatMessage' = Some([role |-> "system",
                              message |-> <<[t |-> "Error: ${error.message}"]>>])
  /\ loading' = [loading EXCEPT !["chat-floating"] = FALSE]
  /\ pc' = "done"
  /\ UNCHANGED <<schemaData, dbtRulesData, windowCurrentDbtRulesData,
                 renderedDbtRules, chatContext, chatRoute, chatFullContent,
                 chatReturn, request, chatDispatch, userMessage, streamText,
                 streamFullContent, isDbtRuleResponse, onUpdateCalls,
                 reconcilerCalls, prior, hvars, xvars>>

\* streamChatResponse pushes the assistant entry and returns finalResponse:
\* processFinalChatResponse and the finally of handleChatSubmit
ChatReturns(finalResponse) ==
  LET final == ProcessFinalChatResponse(finalResponse)
  IN /\ chatHistory' = Append(chatHistory, HistoryEntry("assistant", finalResponse))
     /\ IF IsNull(final.updatedRules)
        THEN UNCHANGED <<dbtRulesData, windowCurrentDbtRulesData, renderedDbtRules>>
        ELSE /\ StoreUpdatedRules(final.updatedRules)
             /\ renderedDbtRules' = final.updatedRules
     /\ lastChatMessage' = Some([role |-> "assistant", message |-> final.message])
     /\ loading' = [loading EXCEPT !["chat-floating"] = FALSE]
     /\ pc' = "done"
     /\ UNCHANGED <<schemaData, chatContext, chatRoute,
                    chatFullContent, chatReturn, status, request, chatDispatch,
                    userMessage, streamText, streamFullContent, prior, hvars,
                    entryPoint, generateDbtBtnShown, observerErrors>>

\* one {content} item in handleDbtRuleChat
HandleDbtRuleChatChunk ==
  /\ pc = "handleDbtRuleChat"
  /\ \E content \in NextContents(streamText, streamFullContent) :
       /\ streamFullContent' = Accumulate(streamFullContent, content)
       /\ IF IncludesSentinel(streamFullContent')
          THEN /\ isDbtRuleResponse' = TRUE
               /\ onUpdateCalls' = Append(onUpdateCalls, WORKING)
          ELSE /\ onUpdateCalls' = Append(onUpdateCalls, content)
               /\ UNCHANGED isDbtRuleResponse
  /\ UNCHANGED <<schemaData, dbtRulesData, windowCurrentDbtRulesData,
                 renderedDbtRules, loading, chatContext, chatRoute,
                 chatFullContent, chatReturn, status, request, chatDispatch,
                 userMessage, pc, streamText, settled, reconcilerCalls,
                 lastChatMessage, prior, hvars, xvars>>

\* one {error} item in handleDbtRuleChat
HandleDbtRuleChatError ==
  /\ pc = "handleDbtRuleChat"
  /\ ChatRejects("handleDbtRuleChat",
                 WithCause(IF chatDispatch = "heuristic"
                           THEN <<"Chat response failed: ", "API error: ">>
                           ELSE <<"API error: ">>,
                           <<UPSTREAM_ERROR>>))

\* the stream of handleDbtRuleChat ends: the rest of handleDbtRuleChat and
\* of streamChatResponse.  The body at line 418 returns the handler's
\* response only when it carries updated rules, and otherwise opens the
\* plain stream.
HandleDbtRuleChatEnds ==
  /\ pc = "handleDbtRuleChat"
  /\ streamFullContent = streamText
  /\ LET result == HandleDbtRuleChatReturn(chatContext, streamFullContent,
                                           isDbtRuleResponse)
     IN /\ settled' = Append(settled, Resolved("handleDbtRuleChat", result))
        /\ reconcilerCalls' = reconcilerCalls + (IF result.reconciled THEN 1 ELSE 0)
        /\ IF chatDispatch = "heuristic" \/ ~IsNull(result.updatedRules)
           THEN /\ ChatReturns(result.finalResponse)
                /\ UNCHANGED <<isDbtRuleResponse, onUpdateCalls>>
           ELSE /\ pc' = "streamChatResponse"
                /\ streamText' \in ChatTexts
                /\ streamFullContent' = <<>>
                /\ UNCHANGED <<schemaData, dbtRulesData, windowCurrentDbtRulesData,
                               renderedDbtRules, loading, chatContext, chatRoute,
                               chatFullContent, chatReturn, status, request,
                               chatDispatch, userMessage, isDbtRuleResponse,
                               onUpdateCalls, lastChatMessage, prior, hvars,
                 xvars>>

\* one {content} item in the plain loop of streamChatResponse
StreamChatResponseChunk ==
  /\ pc = "streamChatResponse"
  /\ \E content \in NextContents(streamText, streamFullContent) :
       /\ streamFullContent' = Accumulate(streamFullContent, content)
       /\ onUpdateCalls' = Append(onUpdateCalls, content)
  /\ UNCHANGED <<schemaData, dbtRulesData, windowCurrentDbtRulesData,
                 renderedDbtRules, loading, chatContext, chatRoute,
                 chatFullContent, chatReturn, status, request, chatDispatch,
                 userMessage, pc, streamText, isDbtRuleResponse, settled,
                 reconcilerCalls, lastChatMessage, prior, hvars,
                 xvars>>

\* one {error} item in the plain loop
StreamChatResponseError ==
  /\ pc = "streamChatResponse"
  /\ ChatRejects("streamChatResponse",
                 WithCause(IF chatDispatch = "heuristic"
                           THEN <<"Chat response failed: ", "LLM API error: ">>
                           ELSE <<"API error: ">>,
                           <<UPSTREAM_ERROR>>))

\* the plain stream ends: the text is the response
StreamChatResponseEnds ==
  /\ pc = "streamChatResponse"
  /\ streamFullContent = streamText
  /\ settled' = Append(settled, Resolved("streamChatResponse", streamFullContent))
  /\ ChatReturns(streamFullContent)
  /\ UNCHANGED <<isDbtRuleResponse, onUpdateCalls, reconcilerCalls>>

\* resetChatHistory() of llm-service.js
ResetChatHistory == chatHistory' = <<>>

\* handleResetChat, between requests: the history and the chat panel are
\* emptied and the status says so
HandleResetChat ==
  /\ pc = "ready"
  /\ ResetChatHistory
  /\ lastChatMessage' = Null
  /\ status' = Some([type |-> "info", text |-> <<"Chat history has been reset">>])
  /\ UNCHANGED <<schemaData, dbtRulesData, windowCurrentDbtRulesData,
                 renderedDbtRules, loading, chatContext, chatRoute,
                 chatFullContent, chatReturn, request, chatDispatch,
                 userMessage, pc, streamText, streamFullContent,
                 isDbtRuleResponse, onUpdateCalls, settled, reconcilerCalls,
                 prior, hvars, entryPoint, generateDbtBtnShown, observerErrors>>

NextStream ==
  \/ UploadBegins \/ GenerateSchemaChunk \/ GenerateSchemaError \/ GenerateSchemaEnds
  \/ GenerateBegins \/ GenerateDbtRulesChunk \/ GenerateDbtRulesError \/ GenerateDbtRulesEnds
  \/ ChatBegins \/ HandleDbtRuleChatChunk \/ HandleDbtRuleChatError \/ HandleDbtRuleChatEnds
  \/ StreamChatResponseChunk \/ StreamChatResponseError \/ StreamChatResponseEnds
  \/ HandleResetChat

SpecStream == InitStream /\ [][NextStream]_vars


\* ------------------------------------------- properties of the reconciler
HadRuleList == ~IsNull(hCurrent0) /\ Has(Val(hCurrent0), "dbtRules")
Reconciled == hPhase # "args" /\ HadRuleList
OldRules == Val(hCurrent0)["dbtRules"]
PatchRules == IF Has(hChanges0, "dbtRules") THEN hChanges0["dbtRules"] ELSE <<>>
FirstUpdated == Val(Val(hFirst).updatedRules)
NewRules == FirstUpdated["dbtRules"]
FirstResponse == Val(hFirst).response
Flagged(e) == Has(e, "isNewRule") /\ e["isNewRule"] = TRUE
NamesOf(rules) == {rules[i]["tableName"] : i \in DOMAIN rules}
PairwiseDistinct(rules) ==
  \A i, j \in DOMAIN rules : rules[i]["tableName"] = rules[j]["tableName"] => i = j
\* the first rule of D with the name of patch entry e (0: none)
OldIndexOf(n) ==
  IF n \in NamesOf(OldRules)
  THEN CHOOSE i \in DOMAIN OldRules :
         /\ OldRules[i]["tableName"] = n
         /\ \A j \in DOMAIN OldRules : OldRules[j]["tableName"] = n => i <= j
  ELSE 0
\* the patch entries merged into the rule named n: same name, not flagged
MergedInto(n) == {j \in DOMAIN PatchRules :
                    PatchRules[j]["tableName"] = n /\ ~Flagged(PatchRules[j])}
AllEntriesMerge ==
  /\ PatchRules # <<>>
  /\ \A j \in DOMAIN PatchRules :
       PatchRules[j]["tableName"] \in NamesOf(OldRules) /\ ~Flagged(PatchRules[j])

\* C1: after processRuleChanges(D, P) returns, the object D is deep-equal
\* to its value before the call (rule list, recommendations and summary).
C1_NonMutation == Reconciled => hCurrent = hCurrent0

\* C1 witness: a call that both added and merged rules has returned.
C1_Witness ==
  /\ hPhase = "called" /\ HadRuleList
  /\ FirstResponse.added # <<>> /\ FirstResponse.modified # <<>>
  /\ FirstUpdated # Val(hCurrent0)

\* C2 (as claimed): pairwise distinct rule names in current stay pairwise
\* distinct in updated, whatever the patch.
C2_KeyUniqueness ==
  (Reconciled /\ PairwiseDistinct(OldRules)) => PairwiseDistinct(NewRules)

\* C3: a single flagged-new entry named like an existing, unsuffixed rule
\* is appended last as N_additional; the old rules keep place and content
\* and the Added entry names N_additional.
C3_CollisionNaming ==
  (/\ hPhase = "called" /\ HadRuleList
   /\ Len(PatchRules) = 1
   /\ Flagged(PatchRules[1])
   /\ PatchRules[1]["tableName"] \in NamesOf(OldRules)
   /\ ~Includes(PatchRules[1]["tableName"], "_new")
   /\ ~Includes(PatchRules[1]["tableName"], "_additional"))
  => /\ Len(NewRules) = Len(OldRules) + 1
     /\ \A i \in DOMAIN OldRules : NewRules[i] = OldRules[i]
     /\ NewRules[Len(NewRules)]["tableName"] =
          PatchRules[1]["tableName"] \o <<"_additional">>
     /\ FirstResponse.added =
          <<[msg |-> "Added new rule for table",
             table |-> PatchRules[1]["tableName"] \o <<"_additional">>]>>

\* C3 witness: such a call has returned.
C3_Witness ==
  /\ hPhase = "called" /\ HadRuleList
  /\ Len(PatchRules) = 1 /\ Flagged(PatchRules[1])
  /\ PatchRules[1]["tableName"] = <<"orders">>
  /\ <<"orders">> \in NamesOf(OldRules)
  /\ Len(NewRules) = Len(OldRules) + 1

\* C4: an unflagged entry named like an existing rule is merged into that
\* rule in place: every field the entry has takes the entry's value (the
\* last such entry's, when several name the rule), every other field keeps
\* the old value; a patch of such entries leaves the list length unchanged
\* and logs one Modified entry per entry.
C4_ModifyMerge ==
  (hPhase = "called" /\ HadRuleList) =>
    /\ \A n \in NamesOf(OldRules) :
         LET i == OldIndexOf(n)
             js == MergedInto(n)
             fields == UNION {DOMAIN PatchRules[j] : j \in js}
         IN /\ i <= Len(NewRules)
            /\ DOMAIN NewRules[i] = (DOMAIN OldRules[i]) \cup fields
            /\ \A f \in DOMAIN NewRules[i] :
                 IF f \in fields
                 THEN LET last == CHOOSE j \in js :
                            /\ f \in DOMAIN PatchRules[j]
                            /\ \A k \in js : f \in DOMAIN PatchRules[k] => k <= j
                      IN NewRules[i][f] = PatchRules[last][f]
                 ELSE NewRules[i][f] = OldRules[i][f]
            /\ Cardinality({k \in DOMAIN FirstResponse.modified :
                 FirstResponse.modified[k] =
                   [msg |-> "Modified rule for table", table |-> n]})
                 = Cardinality(js)
    /\ AllEntriesMerge => Len(NewRules) = Len(OldRules)

\* C4 witness: a merge that overwrote one field and kept another returned.
C4_Witness ==
  /\ hPhase = "called" /\ HadRuleList
  /\ AllEntriesMerge
  /\ \E i \in DOMAIN OldRules :
       /\ NewRules[i]["materialization"] = "view"
       /\ OldRules[i]["materialization"] = "table"
       /\ NewRules[i]["modelSql"] = OldRules[i]["modelSql"]

\* C5 (as claimed): no rule of updated has an isNewRule field.
C5_FlagNeverStored ==
  Reconciled => \A i \in DOMAIN NewRules : ~Has(NewRules[i], "isNewRule")

\* C6 (as claimed): a second call with the same D and the same patch
\* object returns the same updated RuleSet and the same change log.
C6_Determinism ==
  hPhase = "again" =>
    /\ Val(hSecond).updatedRules = Val(hFirst).updatedRules
    /\ Val(hSecond).response = Val(hFirst).response

\* C7: replaying a patch whose entries all merge yields the same RuleSet
\* again, without failing and without adding list entries.
C7_ReplayModify ==
  (hPhase = "replayed" /\ HadRuleList /\ AllEntriesMerge) =>
    /\ Val(hSecond).response.text = "### DBT Rules Updated"
    /\ Val(hSecond).updatedRules = Val(hFirst).updatedRules
    /\ Len(Val(Val(hSecond).updatedRules)["dbtRules"]) = Len(OldRules)

\* C7 witness: a modify patch that changed D has been replayed.
C7_Witness ==
  /\ hPhase = "replayed" /\ HadRuleList /\ AllEntriesMerge
  /\ FirstUpdated # Val(hCurrent0)
  /\ Len(PatchRules) > 1

C9_PreservesUnrelated ==
  (hPhase = "called" /\ HadRuleList) =>
    /\ Len(NewRules) >= Len(OldRules)
    /\ \A i \in DOMAIN OldRules :
         /\ NewRules[i]["tableName"] = OldRules[i]["tableName"]
         /\ OldRules[i]["tableName"] \notin NamesOf(PatchRules)
              => NewRules[i] = OldRules[i]
    /\ \A f \in DOMAIN Val(hCurrent0) :
         f \notin DOMAIN hChanges0 =>
           f \in DOMAIN FirstUpdated /\ FirstUpdated[f] = Val(hCurrent0)[f]
    /\ \E pos \in [1..(Len(NewRules) - Len(OldRules)) -> DOMAIN PatchRules] :
         /\ \A a, b \in DOMAIN pos : a < b => pos[a] < pos[b]
         /\ \A a \in DOMAIN pos :
              NewRules[Len(OldRules) + a] = hChanges["dbtRules"][pos[a]]

\* C9 witness: two rules were added behind an untouched rule while a
\* top-level field was left alone.
C9_Witness ==
  /\ hPhase = "called" /\ HadRuleList
  /\ Len(OldRules) > 0
  /\ Len(NewRules) = Len(OldRules) + 2
  /\ NewRules[Len(NewRules)]["tableName"] # NewRules[Len(NewRules) - 1]["tableName"]
  /\ \E i \in DOMAIN OldRules : OldRules[i]["tableName"] \notin NamesOf(PatchRules)

\* C10: LAST_MODIFIED_TABLE is the stored name of the last patch entry.
C10_LastModifiedTable ==
  (hPhase = "called" /\ HadRuleList /\ PatchRules # <<>>) =>
    LET entry == PatchRules[Len(PatchRules)]
        last == hChanges["dbtRules"][Len(PatchRules)]["tableName"]
    IN /\ FirstResponse.LAST_MODIFIED_TABLE = Some(last)
       /\ last \in NamesOf(NewRules)
       /\ last \in {entry["tableName"], entry["tableName"] \o <<"_additional">>}
       \* a flagged last entry is the rule appended last
       /\ Flagged(entry) => last = NewRules[Len(NewRules)]["tableName"]
       \* an unflagged last entry naming a rule of current keeps its name
       /\ (~Flagged(entry) /\ entry["tableName"] \in NamesOf(OldRules))
            => last = entry["tableName"]

\* C10 witness: a two-entry patch whose entries are stored under different
\* names, the first added and the last merged.
C10_Witness ==
  /\ hPhase = "called" /\ HadRuleList
  /\ Len(PatchRules) = 2
  /\ hChanges["dbtRules"][1]["tableName"] # hChanges["dbtRules"][2]["tableName"]
  /\ FirstResponse.added # <<>> /\ FirstResponse.modified # <<>>
  /\ FirstResponse.LAST_MODIFIED_TABLE = Some(FirstResponse.modified[1].table)

\* the Modified log entries with the given message
ModifiedEntries(response, msg) ==
  {k \in DOMAIN response.modified : response.modified[k].msg = msg}

\* field f of the updated RuleSet is field f of D, present or absent alike
FieldKept(f) ==
  /\ Has(FirstUpdated, f) <=> Has(Val(hCurrent0), f)
  /\ Has(FirstUpdated, f) => FirstUpdated[f] = Val(hCurrent0)[f]

\* C11 (as claimed): a globalRecommendations key of the patch, the empty
\* list included, replaces the old list wholesale, and a summary key, the
\* empty string included, replaces the old summary; each logs exactly one
\* Modified entry; an absent key leaves the field alone and logs nothing.
C11_TopLevelReplacement ==
  (hPhase = "called" /\ HadRuleList) =>
    /\ IF Has(hChanges0, "globalRecommendations")
       THEN /\ Has(FirstUpdated, "globalRecommendations")
            /\ FirstUpdated["globalRecommendations"] = hChanges0["globalRecommendations"]
            /\ Cardinality(ModifiedEntries(FirstResponse, "Updated global recommendations")) = 1
       ELSE /\ FieldKept("globalRecommendations")
            /\ ModifiedEntries(FirstResponse, "Updated global recommendations") = {}
    /\ IF Has(hChanges0, "summary")
       THEN /\ Has(FirstUpdated, "summary")
            /\ FirstUpdated["summary"] = hChanges0["summary"]
            /\ Cardinality(ModifiedEntries(FirstResponse, "Updated summary")) = 1
       ELSE /\ FieldKept("summary")
            /\ ModifiedEntries(FirstResponse, "Updated summary") = {}

\* ----------------------------------- properties of the stream loops
\* the promise settled last
LastSettled == settled[Len(settled)]
\* fn was called during the request
Called(fn) == pc = fn \/ \E i \in DOMAIN settled : settled[i].fn = fn
\* the text holds the sentinel
HoldsSentinel(text) == \E i \in DOMAIN text : text[i].t = "DBT_RULE_JSON:"
\* a is the beginning of b
IsPrefix(a, b) == Len(a) <= Len(b) /\ \A i \in DOMAIN a : a[i] = b[i]
\* the chat message, lower-cased, contains "rule" or "dbt"
NamesRuleOrDbt(message) ==
  \E i \in DOMAIN message : message[i] \in {"rule", "RULES?", "dbt", "DBT"}
\* the stored RuleSet is the one the request found
RuleSetAsBefore ==
  /\ dbtRulesData = Val(prior).dbtRulesData
  /\ windowCurrentDbtRulesData = Val(prior).dbtRulesData

\* C12 (as claimed): a chat message reaches handleDbtRuleChat if and only
\* if its lower-cased text contains "rule" or "dbt"; any other message is
\* answered by the plain loop, never reaches handleDbtRuleChat or
\* processRuleChanges, and leaves the stored RuleSet as it was.
C12_ChatRouting ==
  (request = "chat-floating" /\ ~IsNull(userMessage)) =>
    IF NamesRuleOrDbt(Val(userMessage))
    THEN Called("handleDbtRuleChat")
    ELSE /\ ~Called("handleDbtRuleChat")
         /\ reconcilerCalls = 0
         /\ RuleSetAsBefore

\* C12, the routing of the body at line 124 alone: there the message
\* reaches handleDbtRuleChat exactly when it names "rule" or "dbt".
C12_HeuristicRouting ==
  (request = "chat-floating" /\ ~IsNull(userMessage) /\ chatDispatch = "heuristic") =>
    /\ Called("handleDbtRuleChat") <=> NamesRuleOrDbt(Val(userMessage))
    /\ ~NamesRuleOrDbt(Val(userMessage)) => reconcilerCalls = 0

\* the last call of onUpdate
LastUpdate == onUpdateCalls[Len(onUpdateCalls)]
\* the fixed indicator text
IsWorkingIndicator(arg) ==
  Len(arg) = 1 /\ arg[1].t = "Generating DBT rule modifications..."

\* C13: in the loop of handleDbtRuleChat every chunk makes one onUpdate
\* call; from the first chunk whose accumulated text contains
\* "DBT_RULE_JSON:" on, the call passes the fixed indicator and nothing
\* else, and a call that passes model text passes text without the
\* sentinel, hence without anything that follows it.
C13_SentinelSuppression ==
  [][(pc = "handleDbtRuleChat" /\ pc' = "handleDbtRuleChat") =>
       /\ Len(onUpdateCalls') = Len(onUpdateCalls) + 1
       /\ SubSeq(onUpdateCalls', 1, Len(onUpdateCalls)) = onUpdateCalls
       /\ HoldsSentinel(streamFullContent') =>
            IsWorkingIndicator(onUpdateCalls'[Len(onUpdateCalls')])
       /\ HoldsSentinel(streamFullContent) => HoldsSentinel(streamFullContent')
       /\ ~HoldsSentinel(onUpdateCalls'[Len(onUpdateCalls')])
       /\ ~IsWorkingIndicator(onUpdateCalls'[Len(onUpdateCalls')]) =>
            onUpdateCalls'[Len(onUpdateCalls')] = streamFullContent']_vars

\* C13 witness: model text was passed, then the sentinel arrived and two
\* more chunks passed the indicator.
C13_Witness ==
  /\ pc = "handleDbtRuleChat"
  /\ Len(onUpdateCalls) = 3
  /\ ~IsWorkingIndicator(onUpdateCalls[1])
  /\ IsWorkingIndicator(onUpdateCalls[2])
  /\ IsWorkingIndicator(onUpdateCalls[3])
  /\ HoldsSentinel(streamFullContent)
  /\ Len(streamFullContent) = 3

\* the handler's result, once it has returned
HandlerResults ==
  {settled[i].value : i \in {j \in DOMAIN settled :
     settled[j].fn = "handleDbtRuleChat" /\ ~settled[j].rejected}}
\* machine-readable parts of a chat text
IsMachinePiece(piece) ==
  piece.t \in {"{...}", "<!-- UPDATED_DBT_RULES:", "<!-- LAST_MODIFIED_TABLE:"}

\* C14 (as claimed): after a chat request whose patch parsed and was
\* reconciled, the message rendered to the user is the change log only:
\* it holds neither the patch JSON nor the serialized RuleSet marker nor
\* the last-modified-table marker, whatever the RuleSet contains.
C14_PatchHidden ==
  (/\ pc = "done" /\ request = "chat-floating"
   /\ \E result \in HandlerResults :
        result.reconciled /\ ~IsNull(result.updatedRules)) =>
    /\ ~IsNull(lastChatMessage)
    /\ Val(lastChatMessage).role = "assistant"
    /\ \A i \in DOMAIN Val(lastChatMessage).message :
         ~IsMachinePiece(Val(lastChatMessage).message[i])

\* streams whose text after the sentinel is not valid JSON
BadPayloadTexts ==
  {<<[t |-> "DBT_RULE_JSON:"], [t |-> " "],
     [t |-> "{...}", json |-> MergePatch], [t |-> "(see {notes})"]>>,
   <<[t |-> "DBT_RULE_JSON:"], [t |-> "{\"dbtRules\":["], [t |-> "(see {notes})"]>>,
   <<[t |-> "DBT_RULE_JSON:"], [t |-> "{\"dbtRules\":["]>>}
\* text ends with tail
EndsWith(text, tail) ==
  Len(tail) <= Len(text) /\ SubSeq(text, Len(text) - Len(tail) + 1, Len(text)) = tail

NamesUpstreamError(message) == \E i \in DOMAIN message : message[i] = "${error}"
\* the loops that decode their text
InGeneration == pc \in {"generateSchema", "generateDbtRules"}

\* C16: when the source yields an error item in generateSchema,
\* generateDbtRules or handleDbtRuleChat, onUpdate is not called again,
\* the request ends there (no final parse follows), the promise rejects
\* with a message that includes the upstream error text, and the stored
\* Schema and RuleSet are not replaced.
C16_UpstreamError ==
  [][/\ (GenerateSchemaError \/ GenerateDbtRulesError \/ HandleDbtRuleChatError) =>
          /\ onUpdateCalls' = onUpdateCalls
          /\ pc' = "done"
          /\ Len(settled') = Len(settled) + 1
          /\ settled'[Len(settled')].rejected
          /\ settled'[Len(settled')].fn = pc
          /\ NamesUpstreamError(settled'[Len(settled')].message)
          /\ \A i \in DOMAIN settled : settled[i].fn # pc
          /\ schemaData' = schemaData
          /\ dbtRulesData' = dbtRulesData
          /\ windowCurrentDbtRulesData' = windowCurrentDbtRulesData
          /\ renderedDbtRules' = renderedDbtRules
     /\ pc = "done" => UNCHANGED vars]_vars

\* C16 witness: a rules stream failed after two onUpdate calls and before
\* its text was complete.
C16_Witness ==
  /\ pc = "done" /\ request = "generate-dbt"
  /\ Len(onUpdateCalls) = 2
  /\ Len(streamFullContent) < Len(streamText)
  /\ Len(settled) = 1
  /\ settled[1].rejected
  /\ NamesUpstreamError(settled[1].message)
  /\ dbtRulesData = Some(EmptyDbtRules)

\* C17 (as claimed): when a generation request fails, by a stream error
\* or by text that is not valid JSON, and a Schema (RuleSet) had been
\* finalized before, the application still holds that earlier Document.
C17_LastGoodKept ==
  (pc = "done" /\ settled # <<>> /\ LastSettled.rejected) =>
    /\ (request = "upload" /\ ~IsNull(Val(prior).schemaData)) =>
         schemaData = Val(prior).schemaData
    /\ (request = "generate-dbt" /\ ~IsNull(Val(prior).dbtRulesData)) =>
         dbtRulesData = Val(prior).dbtRulesData

\* parse of partial-json throws: no brace opens the text
Undecodable(text) ==
  ~\E i \in DOMAIN text :
     text[i].t = "{" /\ \A j \in 1..(i - 1) : text[j].t = " "

\* C18: a chunk whose accumulated text the partial decoder rejects makes
\* no onUpdate call, settles nothing and leaves the loop running; a chunk
\* whose text decodes makes one call; a generation request is rejected
\* without an upstream error only by the strict parse after the whole
\* text has arrived.
C18_DecodeFailureSwallowed ==
  [][/\ (InGeneration /\ streamFullContent' # streamFullContent) =>
          /\ pc' = pc /\ settled' = settled /\ status' = status
          /\ loading' = loading
          /\ IF Undecodable(streamFullContent')
             THEN onUpdateCalls' = onUpdateCalls
             ELSE Len(onUpdateCalls') = Len(onUpdateCalls) + 1
     /\ (/\ InGeneration /\ Len(settled') = Len(settled) + 1
         /\ settled'[Len(settled')].rejected
         /\ ~NamesUpstreamError(settled'[Len(settled')].message)) =>
          /\ streamFullContent = streamText
          /\ streamFullContent' = streamFullContent]_vars

\* C18 witness: the first chunk of a rules stream was blank, no call was
\* made, and the loop is still running.
C18_Witness ==
  /\ pc = "generateDbtRules"
  /\ streamFullContent = <<[t |-> " "]>>
  /\ Len(streamText) > 1
  /\ onUpdateCalls = <<>>
  /\ settled = <<>>

\* the value has every list of the earlier value, none of them shorter
NoFewerItems(earlier, later) ==
  \A f \in DOMAIN earlier :
    f \in DOMAIN later /\ Len(later[f]) >= Len(earlier[f])

\* C19 (as claimed): within one generation request onUpdate is called
\* once per chunk at most, in arrival order; the accumulated text after a
\* chunk extends the text before it; and the value passed to onUpdate
\* never has fewer top-level list items than the value passed before.
C19_ProgressOrdering ==
  [][(InGeneration /\ pc' = pc) =>
       /\ IsPrefix(onUpdateCalls, onUpdateCalls')
       /\ Len(onUpdateCalls') <= Len(onUpdateCalls) + 1
       /\ IsPrefix(streamFullContent, streamFullContent')
       /\ Len(streamFullContent') > Len(streamFullContent)
       /\ (onUpdateCalls # <<>> /\ Len(onUpdateCalls') > Len(onUpdateCalls)) =>
            NoFewerItems(LastUpdate, onUpdateCalls'[Len(onUpdateCalls')])]_vars

\* C19, the part about the buffer and the order of the calls alone.
C19_BufferGrows ==
  [][(InGeneration /\ pc' = pc) =>
       /\ IsPrefix(onUpdateCalls, onUpdateCalls')
       /\ Len(onUpdateCalls') <= Len(onUpdateCalls) + 1
       /\ IsPrefix(streamFullContent, streamFullContent')
       /\ Len(streamFullContent') > Len(streamFullContent)]_vars

\* the Document of the running request: what the handler stores
Stored == IF request = "upload" THEN schemaData ELSE dbtRulesData
\* the placeholder the handler stores before the stream
Placeholder ==
  IF request = "upload"
  THEN [schemas |-> <<>>, relationships |-> <<>>, suggestedJoins |-> <<>>,
        modelingRecommendations |-> <<>>]
  ELSE [dbtRules |-> <<>>, globalRecommendations |-> <<>>]
\* the text is one JSON object, blanks before it allowed
ClosedObjectText(text) ==
  ~Undecodable(text) /\ text[Len(text)].t = "}"

\* C20: during a generation request the stored Document is the empty
\* placeholder while chunks arrive; the request is Streaming (a partial
\* value has been passed on) from the first chunk whose text decodes and
\* stays so; the Document is replaced only in the step that ends the
\* request, after the whole text has arrived and has parsed strictly, and
\* never before a partial value was passed on.
C20_Lifecycle ==
  [][InGeneration =>
       /\ Stored = Some(Placeholder)
       /\ pc' = pc =>
            /\ Stored' = Stored
            /\ onUpdateCalls' # <<>> <=>
                 (onUpdateCalls # <<>> \/ ~Undecodable(streamFullContent'))
       /\ Stored' # Stored =>
            /\ pc' = "done"
            /\ streamFullContent = streamText
            /\ ClosedObjectText(streamText)
            /\ onUpdateCalls # <<>>
            /\ ~settled'[Len(settled')].rejected
       /\ (pc' = "done" /\ ~settled'[Len(settled')].rejected) =>
            Stored' # Some(Placeholder)]_vars

\* C20 witness: a rules request went through two partial values and was
\* finalized with both rules.
C20_Witness ==
  /\ pc = "done" /\ request = "generate-dbt"
  /\ Len(onUpdateCalls) >= 2
  /\ Len(settled) = 1 /\ ~settled[1].rejected
  /\ dbtRulesData = Some(settled[1].value)
  /\ "dbtRules" \in DOMAIN settled[1].value
  /\ Len(settled[1].value["dbtRules"]) = 2
  /\ dbtRulesData # Val(prior).dbtRulesData

\* ------------------------------------------- properties of the Documents
\* the field is present and is the empty list
EmptyList(doc, f) == f \in DOMAIN doc /\ doc[f] = <<>>
\* the request has begun and no chunk has arrived
BeforeFirstChunk == InGeneration /\ streamFullContent = <<>> /\ settled = <<>>

\* C21: right after a generation request has started, before any chunk,
\* the stored Schema has schemas, relationships, suggestedJoins and
\* modelingRecommendations equal to [], the stored RuleSet has dbtRules and
\* globalRecommendations equal to [], and the value rendered is that one.
C21_CoercionAtBegin ==
  BeforeFirstChunk =>
    /\ request = "upload" =>
         /\ ~IsNull(schemaData)
         /\ \A f \in {"schemas", "relationships", "suggestedJoins",
                      "modelingRecommendations"} : EmptyList(Val(schemaData), f)
    /\ request = "generate-dbt" =>
         /\ ~IsNull(dbtRulesData)
         /\ \A f \in {"dbtRules", "globalRecommendations"} :
              EmptyList(Val(dbtRulesData), f)
         /\ renderedDbtRules = dbtRulesData

\* C21 witness: a rules request has begun over a stored RuleSet that had
\* a rule, and no chunk has arrived.
C21_Witness ==
  /\ pc = "generateDbtRules" /\ streamFullContent = <<>> /\ settled = <<>>
  /\ streamText # <<>>
  /\ ~IsNull(Val(prior).dbtRulesData)
  /\ dbtRulesData # Val(prior).dbtRulesData

\* every list field of the kind is present in the document
HasLists(doc, fields) == \A f \in fields : f \in DOMAIN doc

\* C22 (as claimed): every RuleSet handed to the renderers during a rules
\* request (each onUpdate value) and the RuleSet stored after finalize has
\* dbtRules and globalRecommendations present as lists, and the Schema
\* stored after finalize has schemas, relationships, suggestedJoins and
\* modelingRecommendations present as lists.
C22_AlwaysIterable ==
  /\ (request = "generate-dbt" /\ pc \in {"generateDbtRules", "done"}) =>
       /\ ~IsNull(renderedDbtRules)
       /\ HasLists(Val(renderedDbtRules), {"dbtRules", "globalRecommendations"})
       /\ ~IsNull(dbtRulesData)
       /\ HasLists(Val(dbtRulesData), {"dbtRules", "globalRecommendations"})
  /\ (request = "upload" /\ pc \in {"generateSchema", "done"}) =>
       /\ ~IsNull(schemaData)
       /\ HasLists(Val(schemaData), {"schemas", "relationships", "suggestedJoins",
                                     "modelingRecommendations"})

\* the list fields of the kind of Document the request generates
ListFields ==
  IF request = "upload"
  THEN {"schemas", "relationships", "suggestedJoins", "modelingRecommendations"}
  ELSE {"dbtRules", "globalRecommendations"}
\* the document with its absent list fields set to []
Coerced(doc, fields) ==
  [f \in (DOMAIN doc) \cup fields |-> IF f \in DOMAIN doc THEN doc[f] ELSE <<>>]

\* C23 (as claimed): when a well-formed text has been delivered and the
\* request has finalized, the stored Document equals the parse of the text
\* with only its absent list fields set to []: no other field is added,
\* removed or rewritten (no summary is added).
C23_FinalizeRoundTrip ==
  (/\ request \in {"upload", "generate-dbt"} /\ pc = "done"
   /\ ~LastSettled.rejected) =>
    Stored = Some(Coerced(Decode(streamText).value, ListFields))

\* C23, the summary alone: a text with globalRecommendations and no
\* summary finalizes to a RuleSet without a summary.
C23_NoSummaryAdded ==
  (/\ request = "generate-dbt" /\ pc = "done" /\ ~LastSettled.rejected
   /\ "summary" \notin DOMAIN Decode(streamText).value) =>
    "summary" \notin DOMAIN Val(dbtRulesData)

\* ---------------------------------------- readers of the stored RuleSet
\* getDbtRulesData(): what the chat context, handleExport and
\* handleRunDbtLocally read
GetDbtRulesData == dbtRulesData

\* the step ends a chat request whose patch was reconciled
PatchReconciled ==
  ChatStreamEnds /\ ~IsNull(Val(chatReturn').finalResponse.UPDATED_DBT_RULES)

C24_ViewSeesPatch ==
  [][PatchReconciled =>
       renderedDbtRules' = Val(chatReturn').finalResponse.UPDATED_DBT_RULES]_vars

\* C24: under main.js the module variable takes the updated RuleSet
C24_LegacyEntryPoint ==
  [][(PatchReconciled /\ entryPoint = "main.js") =>
       GetDbtRulesData' = Val(chatReturn').finalResponse.UPDATED_DBT_RULES]_vars

\* C24: under main-refactored.js no chat request changes what
\* getDbtRulesData() returns
C24_RefactoredKeepsModuleVariable ==
  [][(ChatStreamEnds /\ entryPoint = "main-refactored.js") =>
       GetDbtRulesData' = GetDbtRulesData]_vars

\* ------------------------------------ regeneration against a chat patch
\* the step ends a chat request whose patch was reconciled after a
\* regeneration that wrote the store during the request had ended
PatchAfterRegeneration ==
  /\ PatchReconciled
  /\ chatContext # dbtRulesData
  /\ ~loading["generate-dbt"]

\* the step ends a regeneration whose placeholder a chat patch replaced
RegenerationAfterPatch ==
  /\ DbtRulesGenerated
  /\ dbtRulesData # Some(EmptyDbtRules)

C25_LegacyLastWriterWins ==
  [][entryPoint = "main.js" =>
       /\ PatchAfterRegeneration =>
            /\ GetDbtRulesData' = Val(chatReturn').finalResponse.UPDATED_DBT_RULES
            /\ status' = status
       /\ RegenerationAfterPatch =>
            /\ GetDbtRulesData' \in {Some(WithDefaultSummary(text)) : text \in GeneratedValues}
            /\ status'[1].type = "success"]_vars

\* C25: under main-refactored.js the regenerated RuleSet stays in the
\* module variable when the patch completes last, and the view and
\* window.currentDbtRulesData take the patch
C25_RefactoredSplitsStore ==
  [][(PatchAfterRegeneration /\ entryPoint = "main-refactored.js") =>
       /\ GetDbtRulesData' = GetDbtRulesData
       /\ windowCurrentDbtRulesData' = Val(chatReturn').finalResponse.UPDATED_DBT_RULES
       /\ renderedDbtRules' = Val(chatReturn').finalResponse.UPDATED_DBT_RULES]_vars

\* ------------------------------------------- the Schema a generation takes
\* C26 (as claimed): whenever a RuleSet generation request starts, the
\* Schema passed to it is finalized: it is not the placeholder stored when
\* an upload starts (which is also what a streaming and a failed schema
\* generation leave stored), and no schema generation is in flight.
C26_FinalizedSchemaOnly ==
  [][HandleGenerateDbtRules =>
       /\ schemaData # Some(EmptySchema)
       /\ ~loading["upload"]]_vars

\* C26: the guard of handleGenerateDbtRules is that a Schema is stored
C26_SchemaStored ==
  [][HandleGenerateDbtRules => ~IsNull(schemaData)]_vars

\* ------------------------------------------------ failures of one request
\* what each handler checks before it starts a request
CanStart(action) ==
  CASE action = "upload" -> ~loading["upload"]
    [] action = "generate-dbt" ->
         generateDbtBtnShown /\ ~loading["generate-dbt"] /\ ~IsNull(schemaData)
    [] action = "chat-floating" -> ~loading["chat-floating"]

\* the status is the report of a failure
Surfaced(type) == ~IsNull(status) /\ Val(status).type = type

\* the chat request ends with an error message in place of an answer
ChatAnswersError ==
  /\ ChatStreamEnds
  /\ Val(chatReturn').finalResponse.text \in {GENERATE_FIRST, THROWN_ERROR, PARSE_ERROR}

ChatStore == IF entryPoint = "main.js" THEN dbtRulesData ELSE windowCurrentDbtRulesData

\* what streamChatResponse returned
ReturnedResponse ==
  IF LastSettled.fn = "handleDbtRuleChat"
  THEN LastSettled.value.finalResponse ELSE LastSettled.value

ChatCompleted == pc = "done" /\ request = "chat-floating" /\ ~LastSettled.rejected

\* C28 (as claimed): the RuleSet the chat handler extracts from the
\* UPDATED_DBT_RULES marker and stores equals the updatedRules that
\* processRuleChanges returned, also when a rule's text holds " -->".
C28_MarkerRoundTrip ==
  ChatCompleted =>
    \A result \in HandlerResults :
      ~IsNull(result.updatedRules) => ChatStore = result.updatedRules

\* C28: the round trip holds for every RuleSet without " -->" in a text
C28_RoundTripWithoutArrow ==
  ChatCompleted =>
    \A result \in HandlerResults :
      (~IsNull(result.updatedRules) /\ ~JsonHasArrow(Val(result.updatedRules)))
        => ChatStore = result.updatedRules

\* C28: the stored RuleSet is replaced only by the RuleSet of a marker of
\* the returned response that parses
C28_ReplacedOnlyWhenParsed ==
  (ChatCompleted /\ ChatStore # Val(prior).dbtRulesData) =>
    \E i \in DOMAIN ReturnedResponse :
      /\ ReturnedResponse[i].t = UpdatedMarker(<<>>).t
      /\ ~JsonHasArrow(ReturnedResponse[i].rules)
      /\ ChatStore = Some(ReturnedResponse[i].rules)

\* C28: a RuleSet with " -->" in a rule text is returned and not stored
C28_ArrowNotStored ==
  ChatCompleted =>
    \A result \in HandlerResults :
      (~IsNull(result.updatedRules) /\ JsonHasArrow(Val(result.updatedRules)))
        => ChatStore = Val(prior).dbtRulesData

\* ----------------------------------------------------- the chat history
\* user and assistant entries alternate, from a user entry to an
\* assistant entry
Paired(history) ==
  /\ Len(history) % 2 = 0
  /\ \A i \in DOMAIN history :
       history[i].role = IF i % 2 = 1 THEN "user" ELSE "assistant"

BetweenRequests == pc \in {"ready", "done"}

\* C29 (as claimed): between requests the entries of chatHistory alternate,
\* starting with a user entry and ending with an assistant entry: a call
\* that completes adds one user and one assistant entry, a call that fails
\* leaves the history as it was.
C29_HistoryPairing == BetweenRequests => Paired(chatHistory)

\* C29: a call that completes adds the user's message and the response
C29_CompletedCallAddsPair ==
  ChatCompleted =>
    /\ Len(chatHistory) >= 2
    /\ Paired(chatHistory)
    /\ chatHistory[Len(chatHistory) - 1] = HistoryEntry("user", UserText(Val(userMessage)))
    /\ chatHistory[Len(chatHistory)] = HistoryEntry("assistant", ReturnedResponse)

\* C29: a call that fails leaves the user's message as the last entry
C29_FailedCallKeepsUserEntry ==
  (pc = "done" /\ request = "chat-floating" /\ LastSettled.rejected) =>
    /\ chatHistory # <<>>
    /\ chatHistory[Len(chatHistory)] = HistoryEntry("user", UserText(Val(userMessage)))
    /\ Paired(SubSeq(chatHistory, 1, Len(chatHistory) - 1))

\* C29: resetChatHistory empties the history
C29_ResetEmpties == [][HandleResetChat => chatHistory' = <<>>]_vars

\* ------------------------------------------- a callback that throws
\* the rejection reports what an onUpdate callback threw
NamesObserverError(message) == \E k \in DOMAIN message : message[k] = OBSERVER_ERROR

\* C30: in generateSchema and generateDbtRules an exception thrown by the
\* onUpdate callback is caught with the decode failures: the stream goes
\* on, no request is rejected for it, every later chunk that decodes is
\* delivered, and the final strict parse finalizes the Document.
C30_ObserverErrorCaught ==
  [][/\ observerErrors' > observerErrors =>
          /\ InGeneration /\ pc' = pc
          /\ settled' = settled
          /\ streamFullContent' # streamFullContent
          /\ Len(onUpdateCalls') = Len(onUpdateCalls) + 1
     /\ \A i \in DOMAIN settled' :
          settled'[i].rejected => ~NamesObserverError(settled'[i].message)
     /\ (/\ observerErrors > 0 /\ InGeneration /\ pc' = pc
         /\ ~IsNull(PartialParse(streamFullContent'))) =>
          onUpdateCalls' = Append(onUpdateCalls, Val(PartialParse(streamFullContent')))
     /\ (/\ observerErrors > 0
         /\ GenerateSchemaEnds \/ GenerateDbtRulesEnds
         /\ ~IsNull(StrictParse(streamText))) =>
          /\ ~settled'[Len(settled')].rejected
          /\ settled'[Len(settled')].value \in
               {Val(StrictParse(streamText)), WithDefaultSummary(Val(StrictParse(streamText)))}
          /\ IF request = "upload" THEN schemaData' # schemaData
             ELSE dbtRulesData' = Some(settled'[Len(settled')].value)]_vars

\* C30 witness: a rules generation finalized its Document after a callback
\* threw; the view shows the last value delivered, which is not the first.
C30_Witness ==
  /\ pc = "done" /\ request = "generate-dbt"
  /\ observerErrors > 0
  /\ ~LastSettled.rejected
  /\ Len(onUpdateCalls) >= 2
  /\ renderedDbtRules = Some(onUpdateCalls[Len(onUpdateCalls)])
  /\ renderedDbtRules # Some(onUpdateCalls[1])
  /\ dbtRulesData = Some(LastSettled.value)

====
